---- MODULE Spec2Model ----
(***************************************************************************)
(* netrie: longest-prefix-match index over IP CIDR blocks.                 *)
(* The in-memory trie (CIDRIndex), its minimizer, the binary codec and the *)
(* file-backed index (CIDRIndexFile), as state machines over concrete      *)
(* 4-octet and 16-octet addresses.                                         *)
(***************************************************************************)
EXTENDS Integers, Sequences, FiniteSets, TLC

(* ------------------------------ bounds -------------------------------- *)
MaxAdds == 2
MaxMinimize == 2

(* -------------------------- program constants ------------------------- *)
IPv4len == 4
IPv6len == 16
IPv4Bits == 32
IPv6Bits == 128

(* ----------------------------- arithmetic ----------------------------- *)
Pow2(n) == 2 ^ n

\* Go's conversion of an int to int8: the low 8 bits, two's complement.
ToInt8(x) == LET m == x % 256 IN IF m >= 128 THEN m - 256 ELSE m

\* Go's conversion of an int to S, the id type of the index: int16 wraps at
\* 16 bits; int32 is the width of the integers used here.
ToS(w, x) ==
  IF w THEN x
  ELSE LET m == x % 65536 IN IF m >= 32768 THEN m - 65536 ELSE m

RECURSIVE BitAndFrom(_, _, _)
BitAndFrom(a, b, k) ==
  IF k = 8 THEN 0
  ELSE ((a \div Pow2(k)) % 2) * ((b \div Pow2(k)) % 2) * Pow2(k) + BitAndFrom(a, b, k + 1)

\* a & b on octets.
BitAnd(a, b) == BitAndFrom(a, b, 0)

Zeros(n) == [i \in 1..n |-> 0]

(* ------------------------- package net (stdlib) ----------------------- *)
v4InV6Prefix == Zeros(10) \o <<255, 255>>

\* net.IP.To4: the 4-octet form of an IPv4 or IPv4-mapped address, else nil (<<>>).
To4(ip) ==
  IF Len(ip) = IPv4len THEN ip
  ELSE IF Len(ip) = IPv6len /\ SubSeq(ip, 1, 12) = v4InV6Prefix THEN SubSeq(ip, 13, 16)
  ELSE <<>>

\* netip.Addr.As16: the 16-octet form, IPv4 as IPv4-mapped.
As16(addr) == IF Len(addr) = IPv4len THEN v4InV6Prefix \o addr ELSE addr

\* net.CIDRMask(ones, bits).
CIDRMask(ones, bits) ==
  [i \in 1..(bits \div 8) |->
     IF ones >= 8 * i THEN 255
     ELSE IF ones <= 8 * (i - 1) THEN 0
     ELSE 256 - Pow2(8 * i - ones)]

MaskBit(mask, i) == (mask[(i \div 8) + 1] \div Pow2(7 - (i % 8))) % 2

\* net.IPMask.Size: the number of leading ones, 0 when the mask is not canonical.
MaskSize(mask) ==
  LET bits == 8 * Len(mask)
      n == CHOOSE k \in 0..bits :
             /\ \A i \in 0..(k - 1) : MaskBit(mask, i) = 1
             /\ k = bits \/ MaskBit(mask, k) = 0
  IN IF \A i \in n..(bits - 1) : MaskBit(mask, i) = 0 THEN n ELSE 0

\* net.IP.Mask.
MaskIP(ip0, mask0) ==
  LET mask == IF Len(mask0) = IPv6len /\ Len(ip0) = IPv4len
                 /\ \A i \in 1..12 : mask0[i] = 255
              THEN SubSeq(mask0, 13, 16) ELSE mask0
      ip == IF Len(mask) = IPv4len /\ Len(ip0) = IPv6len
               /\ SubSeq(ip0, 1, 12) = v4InV6Prefix
            THEN SubSeq(ip0, 13, 16) ELSE ip0
  IN IF Len(ip) # Len(mask) THEN <<>>
     ELSE [i \in 1..Len(ip) |-> BitAnd(ip[i], mask[i])]

(* ------------------------------- inputs ------------------------------- *)
\* A CIDR text as net.ParseCIDR reads it: whether it has a '/', whether the
\* address part parses and in which syntax, whether the mask is a number.
Text(slash, addrOK, v6, addr, maskNum, mask) ==
  [slash |-> slash, addrOK |-> addrOK, v6 |-> v6, addr |-> addr,
   maskNum |-> maskNum, mask |-> mask]

V4Text(addr, mask) == Text(TRUE, TRUE, FALSE, addr, TRUE, mask)
V6Text(addr, mask) == Text(TRUE, TRUE, TRUE, addr, TRUE, mask)

Addr2001db8(last) == <<32, 1, 13, 184>> \o Zeros(11) \o <<last>>

ValidCIDRs ==
  { V4Text(<<0, 0, 0, 0>>, 0),                              \* 0.0.0.0/0
    V4Text(<<128, 0, 0, 0>>, 1),                            \* 128.0.0.0/1
    V4Text(<<192, 168, 0, 0>>, 16),                         \* 192.168.0.0/16
    V4Text(<<192, 168, 1, 77>>, 24),                        \* 192.168.1.77/24
    V4Text(<<10, 1, 2, 3>>, 32),                            \* 10.1.2.3/32
    V6Text(Zeros(16), 0),                                   \* ::/0
    V6Text(<<128>> \o Zeros(15), 1),                        \* 8000::/1
    V6Text(Addr2001db8(0), 32),                             \* 2001:db8::/32
    V6Text(Addr2001db8(1), 128),                            \* 2001:db8::1/128
    V6Text(v4InV6Prefix \o <<1, 2, 3, 4>>, 64),             \* ::ffff:1.2.3.4/64
    V6Text(v4InV6Prefix \o <<1, 2, 3, 4>>, 120) }           \* ::ffff:1.2.3.4/120

InvalidCIDRs ==
  { Text(FALSE, FALSE, FALSE, <<>>, FALSE, 0),              \* not-a-cidr
    Text(TRUE, FALSE, FALSE, <<>>, TRUE, 32),               \* 256.256.256.256/32
    V4Text(<<192, 168, 1, 0>>, 33),                         \* 192.168.1.0/33
    V6Text(Addr2001db8(0), 129),                            \* 2001:db8::/129
    Text(FALSE, TRUE, FALSE, <<10, 0, 0, 0>>, FALSE, 0),    \* 10.0.0.0
    Text(TRUE, TRUE, FALSE, <<10, 0, 0, 0>>, FALSE, 0) }    \* 10.0.0.0/x

CIDRTexts == ValidCIDRs \cup InvalidCIDRs

\* A Go string is the sequence of its bytes; "" is the empty sequence.
EmptyString == <<>>

Labels == { <<65>>, <<66, 66>> }                            \* "A", "BB"

\* net.IPNet values handed to AddNet directly.
IPNets ==
  { [IP |-> <<10, 0, 0, 0>>, Mask |-> CIDRMask(8, 32)],
    [IP |-> As16(<<10, 0, 0, 0>>), Mask |-> CIDRMask(9, 32)] }

\* An address text as net.ParseIP reads it.
IPText(ok, addr) == [ok |-> ok, addr |-> addr]

Queries ==
  { IPText(TRUE, <<192, 168, 1, 100>>),
    IPText(TRUE, <<192, 168, 2, 100>>),
    IPText(TRUE, <<10, 1, 2, 3>>),
    IPText(TRUE, <<10, 1, 2, 2>>),
    IPText(TRUE, <<128, 0, 0, 1>>),
    IPText(TRUE, <<1, 2, 3, 4>>),
    IPText(TRUE, v4InV6Prefix \o <<10, 1, 2, 3>>),          \* ::ffff:10.1.2.3
    IPText(TRUE, Addr2001db8(1)),                           \* 2001:db8::1
    IPText(TRUE, Addr2001db8(2)),                           \* 2001:db8::2
    IPText(TRUE, <<128>> \o Zeros(14) \o <<1>>),            \* 8000::1
    IPText(TRUE, <<192, 168, 1, 100>> \o Zeros(12)),        \* c0a8:164::
    IPText(TRUE, Zeros(15) \o <<1>>),                       \* ::1
    IPText(FALSE, <<>>) }                                   \* invalid

\* net.ParseIP: the 16-octet address, nil (<<>>) for invalid text.
ParseIP(t) == IF t.ok THEN As16(t.addr) ELSE <<>>

\* net.ParseCIDR: the network (address masked, mask) or an error.
ParseCIDR(t) ==
  LET bitLen == IF t.v6 THEN IPv6Bits ELSE IPv4Bits
  IN IF ~t.slash \/ ~t.addrOK THEN [err |-> TRUE]
     ELSE IF ~t.maskNum \/ t.mask < 0 \/ t.mask > bitLen THEN [err |-> TRUE]
     ELSE LET m == CIDRMask(t.mask, bitLen)
          IN [err |-> FALSE, ipNet |-> [IP |-> MaskIP(As16(t.addr), m), Mask |-> m]]

(* ------------------------------- state -------------------------------- *)
VARIABLES
  wide,       \* the id type S of the index: TRUE for int32, FALSE for int16
  nodes,      \* idx.nodes; node k of the code is nodes[k + 1]
  names,      \* idx.names
  idByName,   \* idx.idByName
  total,      \* idx.total
  log,        \* the AddNet calls so far, in order: <<octets, maskLen, name, returned>>
  minimized,  \* the number of Minimize calls so far
  ret,        \* the outcome of the last call
  file,       \* the bytes Save wrote, <<>> while nothing is written
  headerLen,     \* the length of the header of file: 12 or 20; 0 while nothing is written
  loaded,     \* the in-memory index decoded from file
  opened,     \* the file-backed index Open returned on file
  found,      \* the last lookup on opened: the address text, the label, the error
  idxMeta,    \* idx.meta: build date, name and description
  mu,         \* idx.mu of the file-backed index: the goroutine that holds it, 0 if none
  calls,      \* the lookup each goroutine is in: where it is and what it has so far
  cache,      \* a bufReaderAt over file
  read        \* the last ReadAt on cache, and the same ReadAt on file

codecVars == <<file, headerLen, loaded, opened, found>>

extVars == <<idxMeta, mu, calls, cache, read>>

vars == <<wide, nodes, names, idByName, total, log, minimized, ret,
          file, headerLen, loaded, opened, found, idxMeta, mu, calls, cache, read>>

\* No value yet: nothing loaded, opened or looked up.
None == [none |-> TRUE]

EmptyNode == [children |-> <<-1, -1>>, id |-> -1, maskLen |-> -1]

\* Go's map read: the zero value for a missing key.
MapGet(m, k) == IF k \in DOMAIN m THEN m[k] ELSE 0

\* (ip[i/8] >> (7 - i%8)) & 1
Bit(ip, i) == (ip[(i \div 8) + 1] \div Pow2(7 - (i % 8))) % 2

\* The zero value of Metadata.
ZeroMetadata == [BuildDate |-> 0, Name |-> EmptyString, Description |-> EmptyString]

Goroutines == {1, 2}

\* A goroutine that is in no call.
Idle == [pc |-> "idle"]

Init ==
  /\ wide \in BOOLEAN
  /\ nodes = <<EmptyNode>>
  /\ names = <<>>
  /\ idByName = <<>>
  /\ total = 0
  /\ log = <<>>
  /\ minimized = 0
  /\ ret = "nil"
  /\ file = <<>>
  /\ headerLen = 0
  /\ loaded = None
  /\ opened = None
  /\ found = None
  /\ idxMeta = ZeroMetadata
  /\ mu = 0
  /\ calls = [g \in Goroutines |-> Idle]
  /\ cache = None
  /\ read = None

(* ------------------------------ insertion ----------------------------- *)
\* One iteration of the loop of AddNet, at bit i: s is <<nodes, current>> and
\* whether ip[i/8] was out of range in an earlier iteration (a run-time panic).
AddNetStep(s, ip, i) ==
  IF s.panic THEN s
  ELSE IF i \div 8 >= Len(ip) THEN [s EXCEPT !.panic = TRUE]
  ELSE LET bit == Bit(ip, i)
           childIndex == s.nodes[s.current + 1].children[bit + 1]
       IN IF childIndex = -1
          THEN [nodes |-> Append([s.nodes EXCEPT ![s.current + 1].children[bit + 1] =
                                                    Len(s.nodes)],
                                 EmptyNode),
                current |-> Len(s.nodes), panic |-> FALSE]
          ELSE [s EXCEPT !.current = childIndex]

\* for i := lo; i < hi; i++ { AddNetStep }, the range split in halves.
RECURSIVE AddNetLoop(_, _, _, _)
AddNetLoop(s, ip, lo, hi) ==
  IF lo >= hi THEN s
  ELSE IF hi = lo + 1 THEN AddNetStep(s, ip, lo)
  ELSE LET mid == (lo + hi) \div 2
           left == AddNetLoop(s, ip, lo, mid)
       IN IF left.panic THEN left ELSE AddNetLoop(left, ip, mid, hi)

AddNetWalk(ns, ip, maskLen) ==
  AddNetLoop([nodes |-> ns, current |-> 0, panic |-> FALSE], ip, 0, maskLen)

\* Intern with every call taking a new id, known label or not.
Intern_NoReuse(name) ==
  [id |-> ToS(wide, Len(names) + 1),
   names |-> Append(names, name),
   idByName |-> (name :> ToS(wide, Len(names) + 1)) @@ idByName]

\* The label id AddNet uses for name on the label table nm and reverse map
\* byName, and the two after interning it.
InternIn(nm, byName, name) ==
  LET id == MapGet(byName, name)
  IN IF id = 0
     THEN [id |-> ToS(wide, Len(nm) + 1),
           names |-> Append(nm, name),
           idByName |-> (name :> ToS(wide, Len(nm) + 1)) @@ byName]
     ELSE [id |-> id, names |-> nm, idByName |-> byName]

\* The same on the index of the state.
Intern(name) == InternIn(names, idByName, name)

\* The octets as they come, with no conversion to the 4-octet form.
Canonical_AsGiven(ip) == ip

\* The octets AddNet walks: the 4-octet form when the address has one.
Canonical(ip) == IF To4(ip) # <<>> THEN To4(ip) ELSE ip

\* AddNet that builds the path and leaves its last node unstamped.
AddNet_NoStamp(ipNet, name) ==
  LET in == Intern(name)
      ip == Canonical(ipNet.IP)
      maskLen == MaskSize(ipNet.Mask)
      w == AddNetWalk(nodes, ip, maskLen)
  IN /\ names' = in.names
     /\ idByName' = in.idByName
     /\ nodes' = w.nodes
     /\ IF w.panic
        THEN /\ ret' = "panic"
             /\ log' = Append(log, <<ip, maskLen, name, FALSE>>)
             /\ UNCHANGED total
        ELSE /\ total' = total + 1
             /\ log' = Append(log, <<ip, maskLen, name, TRUE>>)
             /\ ret' = "nil"
     /\ UNCHANGED <<wide, minimized>>
     /\ UNCHANGED codecVars
     /\ UNCHANGED extVars

\* AddNet that leaves a stamped node with the id it has.
AddNet_KeepsFirst(ipNet, name) ==
  LET in == Intern(name)
      ip == Canonical(ipNet.IP)
      maskLen == MaskSize(ipNet.Mask)
      w == AddNetWalk(nodes, ip, maskLen)
  IN /\ names' = in.names
     /\ idByName' = in.idByName
     /\ IF w.panic
        THEN /\ nodes' = w.nodes
             /\ ret' = "panic"
             /\ log' = Append(log, <<ip, maskLen, name, FALSE>>)
             /\ UNCHANGED total
        ELSE /\ nodes' = IF w.nodes[w.current + 1].id # -1 THEN w.nodes
                         ELSE [w.nodes EXCEPT ![w.current + 1].id = in.id,
                                              ![w.current + 1].maskLen = ToInt8(maskLen)]
             /\ total' = total + 1
             /\ log' = Append(log, <<ip, maskLen, name, TRUE>>)
             /\ ret' = "nil"
     /\ UNCHANGED <<wide, minimized>>
     /\ UNCHANGED codecVars
     /\ UNCHANGED extVars

AddNet(ipNet, name) ==
  LET in == Intern(name)
      ip == Canonical(ipNet.IP)
      maskLen == MaskSize(ipNet.Mask)
      w == AddNetWalk(nodes, ip, maskLen)
  IN /\ names' = in.names
     /\ idByName' = in.idByName
     /\ IF w.panic
        THEN /\ nodes' = w.nodes
             /\ ret' = "panic"
             /\ log' = Append(log, <<ip, maskLen, name, FALSE>>)
             /\ UNCHANGED total
        ELSE /\ nodes' = [w.nodes EXCEPT ![w.current + 1].id = in.id,
                                         ![w.current + 1].maskLen = ToInt8(maskLen)]
             /\ total' = total + 1
             /\ log' = Append(log, <<ip, maskLen, name, TRUE>>)
             /\ ret' = "nil"
     /\ UNCHANGED <<wide, minimized>>
     /\ UNCHANGED codecVars
     /\ UNCHANGED extVars

\* The index accepts calls while no call has panicked; insertions come before
\* Minimize ("Safe to call only once after all insertions are done").
CanCall == ret # "panic" /\ minimized = 0

DoAddNet ==
  \E n \in IPNets, name \in Labels : CanCall /\ Len(log) < MaxAdds /\ AddNet(n, name)

\* AddCIDR with the label interned before the text is parsed.
AddCIDR_InternFirst(cidr, name) ==
  LET p == ParseCIDR(cidr)
  IN IF p.err
     THEN /\ ret' = "invalid CIDR"
          /\ names' = Intern(name).names
          /\ idByName' = Intern(name).idByName
          /\ UNCHANGED <<wide, nodes, total, log, minimized>>
          /\ UNCHANGED codecVars
          /\ UNCHANGED extVars
     ELSE AddNet(p.ipNet, name)

\* AddCIDR with every call counted, failed or not.
AddCIDR_CountsCalls(cidr, name) ==
  LET p == ParseCIDR(cidr)
  IN IF p.err
     THEN /\ ret' = "invalid CIDR"
          /\ total' = total + 1
          /\ UNCHANGED <<wide, nodes, names, idByName, log, minimized>>
          /\ UNCHANGED codecVars
          /\ UNCHANGED extVars
     ELSE AddNet(p.ipNet, name)

AddCIDR(cidr, name) ==
  LET p == ParseCIDR(cidr)
  IN IF p.err
     THEN /\ ret' = "invalid CIDR"
          /\ UNCHANGED <<wide, nodes, names, idByName, total, log, minimized>>
          /\ UNCHANGED codecVars
          /\ UNCHANGED extVars
     ELSE AddNet(p.ipNet, name)

DoAddCIDR ==
  \E c \in CIDRTexts, name \in Labels :
    /\ CanCall
    /\ ParseCIDR(c).err \/ Len(log) < MaxAdds
    /\ AddCIDR(c, name)

(* -------------------------------- lookup ------------------------------ *)
Better(n, bestMaskLen) == n.id # -1 /\ n.maskLen > bestMaskLen

\* One iteration of the loop of LookupIP, at bit i, on the node n it is at.
LookupStep(s, n, ip, i) ==
  LET best == IF Better(n, s.bestMaskLen)
              THEN [s EXCEPT !.bestID = n.id, !.bestMaskLen = n.maskLen] ELSE s
      childIndex == n.children[Bit(ip, i) + 1]
  IN IF childIndex = -1 THEN [best EXCEPT !.brk = TRUE]
     ELSE [best EXCEPT !.current = childIndex]

\* for i := lo; i < hi; i++ { LookupStep }, the range split in halves; brk is
\* the loop's break.
RECURSIVE LookupLoop(_, _, _, _, _)
LookupLoop(s, ns, ip, lo, hi) ==
  IF lo >= hi \/ s.brk THEN s
  ELSE IF hi = lo + 1 THEN LookupStep(s, ns[s.current + 1], ip, lo)
  ELSE LET mid == (lo + hi) \div 2
           left == LookupLoop(s, ns, ip, lo, mid)
       IN IF left.brk THEN left ELSE LookupLoop(left, ns, ip, mid, hi)

\* The index of idx.names[bestID-1]: the subtraction is in S, where int16 wraps.
NameIndex(bestID) == ToS(wide, bestID - 1)

\* The label LookupIP returns once its walk has ended at node last with w:
\* nm[i + 1] is idx.names[i].
LookupIPLabel(nm, w, last) ==
  LET bestID == IF Better(last, w.bestMaskLen) THEN last.id ELSE w.bestID
  IN IF bestID = -1 THEN EmptyString ELSE nm[NameIndex(bestID) + 1]

\* CIDRIndex.LookupIP on the node array ns and label table nm.
LookupIP(ns, nm, ip0) ==
  IF ip0 = <<>> THEN EmptyString
  ELSE LET ip == Canonical(ip0)
           maxBits == IF Len(ip) = IPv4len THEN IPv4Bits ELSE IPv6Bits
           w == LookupLoop([current |-> 0, bestID |-> -1, bestMaskLen |-> -1,
                            brk |-> FALSE], ns, ip, 0, maxBits)
       IN LookupIPLabel(nm, w, ns[w.current + 1])

\* Whether idx.names[bestID-1] is an index out of range at the end of that
\* walk: the run-time panic of LookupIP.
LookupIPPanicsAt(nm, w, last) ==
  LET bestID == IF Better(last, w.bestMaskLen) THEN last.id ELSE w.bestID
  IN bestID # -1 /\ NameIndex(bestID) \notin 0..(Len(nm) - 1)

LookupIPPanics(ns, nm, ip0) ==
  /\ ip0 # <<>>
  /\ LET ip == Canonical(ip0)
         maxBits == IF Len(ip) = IPv4len THEN IPv4Bits ELSE IPv6Bits
         w == LookupLoop([current |-> 0, bestID |-> -1, bestMaskLen |-> -1,
                          brk |-> FALSE], ns, ip, 0, maxBits)
     IN LookupIPPanicsAt(nm, w, ns[w.current + 1])

\* CIDRIndex.Lookup on the node array ns and label table nm.
Lookup(ns, nm, t) ==
  LET ip == ParseIP(t)
  IN IF ip = <<>> THEN EmptyString ELSE LookupIP(ns, nm, ip)

(* ------------------------------ minimizer ----------------------------- *)
\* MinimizeStep with no signature reused: every old node gets a node of its own.
MinimizeStep_NoShare(s, ns) ==
  [i |-> s.i - 1,
   remap |-> [s.remap EXCEPT ![s.i + 1] = Len(s.minimal)],
   sigToIndex |-> s.sigToIndex,
   minimal |-> Append(s.minimal,
                      [children |-> << IF ns[s.i + 1].children[1] # -1
                                       THEN s.remap[ns[s.i + 1].children[1] + 1] ELSE -1,
                                       IF ns[s.i + 1].children[2] # -1
                                       THEN s.remap[ns[s.i + 1].children[2] + 1] ELSE -1 >>,
                       id |-> ns[s.i + 1].id, maskLen |-> ns[s.i + 1].maskLen])]

\* One iteration of the loop of Minimize, on old node s.i of the array ns.
MinimizeStep(s, ns) ==
  LET old == ns[s.i + 1]
      ch0 == IF old.children[1] # -1 THEN s.remap[old.children[1] + 1] ELSE -1
      ch1 == IF old.children[2] # -1 THEN s.remap[old.children[2] + 1] ELSE -1
      currentSig == <<ch0, ch1, old.id, old.maskLen>>
  IN IF currentSig \in DOMAIN s.sigToIndex
     THEN [s EXCEPT !.remap[s.i + 1] = s.sigToIndex[currentSig], !.i = s.i - 1]
     ELSE LET newIdx == Len(s.minimal)
          IN [i |-> s.i - 1,
              remap |-> [s.remap EXCEPT ![s.i + 1] = newIdx],
              sigToIndex |-> (currentSig :> newIdx) @@ s.sigToIndex,
              minimal |-> Append(s.minimal,
                                 [children |-> <<ch0, ch1>>, id |-> old.id,
                                  maskLen |-> old.maskLen])]

\* At most n iterations of for i := len(idx.nodes) - 1; i >= 0; i-- from s,
\* the iterations split in halves.
RECURSIVE MinimizeLoop(_, _, _)
MinimizeLoop(s, ns, n) ==
  IF n <= 0 \/ s.i < 0 THEN s
  ELSE IF n = 1 THEN MinimizeStep(s, ns)
  ELSE LET first == MinimizeLoop(s, ns, n \div 2)
       IN IF first.i < 0 THEN first ELSE MinimizeLoop(first, ns, n - (n \div 2))

\* SwapRoot with the exchange left out: the root stays in its slot.
SwapRoot_Skip(minimal, finalRoot) == minimal

\* The node array after the root's slot is exchanged with slot 0.
SwapRoot(minimal, finalRoot) ==
  IF finalRoot # 0
  THEN [minimal EXCEPT ![finalRoot + 1] = minimal[1], ![1] = minimal[finalRoot + 1]]
  ELSE minimal

\* The old-to-new table after the exchange.
FixRemap(remap, finalRoot) ==
  IF finalRoot # 0
  THEN [k \in 1..Len(remap) |->
          IF remap[k] = 0 THEN finalRoot
          ELSE IF remap[k] = finalRoot THEN 0 ELSE remap[k]]
  ELSE remap

\* CIDRIndex.Minimize on the node array ns: the node array it leaves.
Minimized(ns) ==
  IF Len(ns) <= 1 THEN ns
  ELSE LET s == MinimizeLoop([i |-> Len(ns) - 1, remap |-> Zeros(Len(ns)),
                              sigToIndex |-> <<>>, minimal |-> <<>>], ns, Len(ns))
           finalRoot == s.remap[1]
       IN SwapRoot(s.minimal, finalRoot)

\* The old-to-new table remap as Minimize leaves it on the node array ns:
\* remap[k + 1] is the slot of the output array that old node k went to.
MinimizeRemap(ns) ==
  IF Len(ns) <= 1 THEN Zeros(Len(ns))
  ELSE LET s == MinimizeLoop([i |-> Len(ns) - 1, remap |-> Zeros(Len(ns)),
                              sigToIndex |-> <<>>, minimal |-> <<>>], ns, Len(ns))
       IN FixRemap(s.remap, s.remap[1])

Minimize ==
  /\ ret # "panic"
  /\ minimized < MaxMinimize
  /\ nodes' = Minimized(nodes)
  /\ minimized' = minimized + 1
  /\ ret' = "nil"
  /\ UNCHANGED <<wide, names, idByName, total, log>>
  /\ UNCHANGED codecVars
  /\ UNCHANGED extVars

Next == DoAddNet \/ DoAddCIDR \/ Minimize

Spec == Init /\ [][Next]_vars

(* ----------------------- tries of short prefixes ---------------------- *)
MaxShortAdds == 3

\* Prefixes of at most three bits: their subtrees meet and repeat.
ShortCIDRs ==
  { V4Text(<<0, 0, 0, 0>>, 0),                              \* 0.0.0.0/0
    V4Text(<<0, 0, 0, 0>>, 1),                              \* 0.0.0.0/1
    V4Text(<<128, 0, 0, 0>>, 1),                            \* 128.0.0.0/1
    V4Text(<<0, 0, 0, 0>>, 2),                              \* 0.0.0.0/2
    V4Text(<<64, 0, 0, 0>>, 2),                             \* 64.0.0.0/2
    V4Text(<<128, 0, 0, 0>>, 2),                            \* 128.0.0.0/2
    V4Text(<<192, 0, 0, 0>>, 2),                            \* 192.0.0.0/2
    V4Text(<<96, 0, 0, 0>>, 3) }                            \* 96.0.0.0/3

ShortAdd ==
  \E c \in ShortCIDRs, name \in Labels :
    CanCall /\ Len(log) < MaxShortAdds /\ AddCIDR(c, name)

\* Minimize once, after the insertions.
ShortMinimize == CanCall /\ Minimize

ShortNext == ShortAdd \/ ShortMinimize

ShortSpec == Init /\ [][ShortNext]_vars

(* ------------- concurrent lookups on the in-memory index -------------- *)
\* The address texts the goroutines look up.
MemQueries ==
  { IPText(TRUE, <<64, 0, 0, 1>>),
    IPText(TRUE, <<192, 0, 0, 1>>),
    IPText(FALSE, <<>>) }                                   \* invalid

\* Insertions, all before the first lookup: construction has finished when
\* a goroutine calls Lookup.
MemAdd ==
  \E c \in ShortCIDRs, name \in Labels :
    /\ CanCall /\ Len(log) < MaxAdds
    /\ \A g \in Goroutines : calls[g] = Idle
    /\ AddCIDR(c, name)

\* The frame of a step of a lookup on the in-memory index: what the step
\* leaves alone besides the call of the goroutine.
MemFrame ==
  /\ UNCHANGED <<wide, nodes, names, idByName, total, log, minimized, ret>>
  /\ UNCHANGED codecVars
  /\ UNCHANGED <<idxMeta, mu, cache, read>>

\* MemReturn that counts the lookup in idx.total.
MemReturn_CountsLookups(g) ==
  /\ calls[g].pc = "loop"
  /\ calls[g].i >= calls[g].maxBits \/ calls[g].s.brk
  /\ calls' = [calls EXCEPT ![g] = [pc |-> "done", q |-> calls[g].q, label |-> EmptyString]]
  /\ total' = total + 1
  /\ UNCHANGED <<wide, nodes, names, idByName, log, minimized, ret>>
  /\ UNCHANGED codecVars
  /\ UNCHANGED <<idxMeta, mu, cache, read>>

\* Goroutine g calls Lookup(q): "" at once for an invalid text, else LookupIP
\* up to the loop.
MemCall(g) ==
  \E q \in MemQueries :
    /\ ret # "panic"
    /\ calls[g].pc \in {"idle", "done"}
    /\ calls' = [calls EXCEPT ![g] =
                   IF ParseIP(q) = <<>>
                   THEN [pc |-> "done", q |-> q, label |-> EmptyString]
                   ELSE [pc |-> "loop", q |-> q, ip |-> Canonical(ParseIP(q)), i |-> 0,
                         maxBits |-> IF Len(Canonical(ParseIP(q))) = IPv4len
                                     THEN IPv4Bits ELSE IPv6Bits,
                         s |-> [current |-> 0, bestID |-> -1, bestMaskLen |-> -1,
                                brk |-> FALSE]]]
    /\ MemFrame

\* One iteration of the loop of LookupIP in goroutine g.
MemStep(g) ==
  /\ calls[g].pc = "loop"
  /\ calls[g].i < calls[g].maxBits /\ ~calls[g].s.brk
  /\ calls' = [calls EXCEPT
                 ![g].s = LookupStep(calls[g].s, nodes[calls[g].s.current + 1],
                                     calls[g].ip, calls[g].i),
                 ![g].i = calls[g].i + 1]
  /\ MemFrame

\* The end of LookupIP in goroutine g: the final node, then the label.
MemReturn(g) ==
  /\ calls[g].pc = "loop"
  /\ calls[g].i >= calls[g].maxBits \/ calls[g].s.brk
  /\ calls' = [calls EXCEPT ![g] =
                 [pc |-> "done", q |-> calls[g].q,
                  label |-> LET last == nodes[calls[g].s.current + 1]
                                bestID == IF Better(last, calls[g].s.bestMaskLen)
                                          THEN last.id ELSE calls[g].s.bestID
                            IN IF bestID = -1 THEN EmptyString ELSE names[bestID]]]
  /\ MemFrame

MemLookupNext ==
  \/ MemAdd
  \/ \E g \in Goroutines : MemCall(g)
  \/ \E g \in Goroutines : MemStep(g)
  \/ \E g \in Goroutines : MemReturn(g)

MemLookupSpec == Init /\ [][MemLookupNext]_vars

(* ---------------------------- binary codec ---------------------------- *)
NarrowNodeSize == 11
WideNodeSize == 13
OldHeaderSize == 12
HeaderSize == 20

\* binary.BigEndian.PutUint32(b, uint32(v)): the four bytes of v, two's complement.
PutUint32(v) ==
  << (v \div 16777216) % 256, (v \div 65536) % 256, (v \div 256) % 256, v % 256 >>

\* binary.BigEndian.PutUint16(b, uint16(v)).
PutUint16(v) == << (v \div 256) % 256, v % 256 >>

\* binary.BigEndian.Uint16(b).
Uint16(b) == b[1] * 256 + b[2]

\* int(binary.BigEndian.Uint32(b)): a count or a length, not negative.
Uint32(b) == b[1] * 16777216 + b[2] * 65536 + b[3] * 256 + b[4]

\* int32(binary.BigEndian.Uint32(b)): the top bit is the sign.
Int32(b) ==
  (IF b[1] >= 128 THEN b[1] - 256 ELSE b[1]) * 16777216 + b[2] * 65536 + b[3] * 256 + b[4]

\* The length of a node record for the id type.
NodeSize(w) == IF w THEN WideNodeSize ELSE NarrowNodeSize

\* MarshalBinary with the two children written in each other's place.
MarshalBinary_SwapChildren(w, n) ==
  PutUint32(n.children[2]) \o PutUint32(n.children[1])
    \o (IF w THEN PutUint32(n.id) ELSE PutUint16(n.id))
    \o << n.maskLen % 256 >>

\* trieNode.MarshalBinary.
MarshalBinary(w, n) ==
  PutUint32(n.children[1]) \o PutUint32(n.children[2])
    \o (IF w THEN PutUint32(n.id) ELSE PutUint16(n.id))
    \o << n.maskLen % 256 >>

\* trieNode.UnmarshalBinary: the node, or an error on data of another length.
UnmarshalBinary(w, data) ==
  IF Len(data) # NodeSize(w) THEN [err |-> TRUE]
  ELSE [err |-> FALSE,
        node |-> [children |-> << Int32(SubSeq(data, 1, 4)), Int32(SubSeq(data, 5, 8)) >>,
                  id |-> IF w THEN Int32(SubSeq(data, 9, 12))
                         ELSE ToS(FALSE, Uint16(SubSeq(data, 9, 10))),
                  maskLen |-> ToInt8(data[NodeSize(w)])]]

\* The node records Save writes, one after another.
NodeRecords(w, ns) ==
  LET size == NodeSize(w)
      recs == [k \in 1..Len(ns) |-> MarshalBinary(w, ns[k])]
  IN [i \in 1..(Len(ns) * size) |-> recs[((i - 1) \div size) + 1][((i - 1) % size) + 1]]

\* The label records Save writes: a length, then the bytes of the label.
RECURSIVE NameRecords(_)
NameRecords(nm) ==
  IF nm = <<>> THEN <<>>
  ELSE PutUint32(Len(Head(nm))) \o Head(nm) \o NameRecords(Tail(nm))

\* CIDRIndex.Save: the bytes written for an index.
Save(w, tot, ns, nm) ==
  PutUint32(tot) \o PutUint32(Len(ns)) \o PutUint32(Len(nm))
    \o NodeRecords(w, ns) \o NameRecords(nm)

\* io.ReadFull of n bytes from the reader over data that has consumed pos bytes.
ReadFull(data, pos, n) ==
  IF pos + n > Len(data) THEN [err |-> TRUE]
  ELSE [err |-> FALSE, buf |-> SubSeq(data, pos + 1, pos + n)]

\* make([]trieNode[S], n) holds zero values.
ZeroNode == [children |-> <<0, 0>>, id |-> 0, maskLen |-> 0]

\* The loop of Load that reads nodesLen node records from position start.
ReadNodes(w, data, start, nodesLen) ==
  LET size == NodeSize(w)
      left == IF Len(data) > start THEN (Len(data) - start) \div size ELSE 0
      whole == IF left < nodesLen THEN left ELSE nodesLen
  IN [err |-> whole < nodesLen,
      nodes |-> [k \in 1..nodesLen |->
                   IF k <= whole
                   THEN UnmarshalBinary(w, SubSeq(data, start + (k - 1) * size + 1,
                                                  start + k * size)).node
                   ELSE ZeroNode]]

\* One iteration of the loop of Load that reads label i: s holds the position
\* of the reader, names, idByName and whether a read failed.
ReadName(w, s, data, i) ==
  LET l == ReadFull(data, s.pos, 4)
  IN IF l.err THEN [s EXCEPT !.err = TRUE]
     ELSE LET nameLen == Uint32(l.buf)
              b == ReadFull(data, s.pos + 4, nameLen)
          IN IF b.err THEN [s EXCEPT !.err = TRUE]
             ELSE [pos |-> s.pos + 4 + nameLen,
                   names |-> [s.names EXCEPT ![i + 1] = b.buf],
                   idByName |-> (b.buf :> ToS(w, i)) @@
                                [k \in DOMAIN s.idByName \ {b.buf} |-> s.idByName[k]],
                   err |-> FALSE]

\* for i := lo; i < hi; i++ { ReadName }.
RECURSIVE ReadNames(_, _, _, _, _)
ReadNames(w, s, data, lo, hi) ==
  IF lo >= hi \/ s.err THEN s
  ELSE ReadNames(w, ReadName(w, s, data, lo), data, lo + 1, hi)

\* The state of a new index: newCIDRIndex.
NewIndex == [err |-> "nil", total |-> 0, nodes |-> <<EmptyNode>>, names |-> <<>>,
             idByName |-> <<>>, meta |-> ZeroMetadata]

\* The rest of Load once the header is read: the nodes from position start,
\* then the labels, into a new index.
LoadBody(w, data, start, tot, nodesLen, namesLen) ==
  LET n == ReadNodes(w, data, start, nodesLen)
      blank == [i \in 1..namesLen |-> EmptyString]
  IN IF n.err
     THEN [err |-> "read node", total |-> tot, nodes |-> n.nodes, names |-> blank,
           idByName |-> <<>>, meta |-> ZeroMetadata]
     ELSE LET s == ReadNames(w, [pos |-> start + nodesLen * NodeSize(w), names |-> blank,
                                 idByName |-> <<>>, err |-> FALSE], data, 0, namesLen)
          IN [err |-> IF s.err THEN "read name" ELSE "nil", total |-> tot,
              nodes |-> n.nodes, names |-> s.names, idByName |-> s.idByName,
              meta |-> ZeroMetadata]

\* CIDRIndex.Load on a new index of id type w: the index it leaves and the error.
Load(w, data) ==
  LET h == ReadFull(data, 0, OldHeaderSize)
  IN IF h.err THEN [NewIndex EXCEPT !.err = "read header"]
     ELSE LoadBody(w, data, OldHeaderSize, Uint32(SubSeq(h.buf, 1, 4)),
                   Uint32(SubSeq(h.buf, 5, 8)), Uint32(SubSeq(h.buf, 9, 12)))

\* CIDRIndex.LenNames on a decoded index.
LenNames(idx) == Cardinality(DOMAIN idx.idByName)

\* The index is built and nothing is written yet.
Building == file = <<>> /\ ret # "panic"

\* Save to a buffer, once the insertions (and Minimize) are done.
DoSave ==
  /\ Building
  /\ file' = Save(wide, total, nodes, names)
  /\ headerLen' = OldHeaderSize
  /\ UNCHANGED <<wide, nodes, names, idByName, total, log, minimized, ret,
                 loaded, opened, found>>
  /\ UNCHANGED extVars

\* Load of the saved bytes into a new index of the same id type.
DoLoad ==
  /\ headerLen = OldHeaderSize
  /\ loaded = None
  /\ loaded' = Load(wide, file)
  /\ UNCHANGED <<wide, nodes, names, idByName, total, log, minimized, ret,
                 file, headerLen, opened, found>>
  /\ UNCHANGED extVars

(* ------------------------- versioned file format ---------------------- *)
\* The metadata regions written: none, and the JSON object {}.
Metadatas == { <<>>, <<123, 125>> }

\* The encoder of the versioned format: a 20-byte header (version 1, bit 31
\* set for wide ids; total; nodes; labels; metadata length), the metadata,
\* the node records, the label records.
SaveVersioned(w, tot, ns, nm, meta) ==
  << IF w THEN 128 ELSE 0, 0, 0, 1 >>
    \o PutUint32(tot) \o PutUint32(Len(ns)) \o PutUint32(Len(nm)) \o PutUint32(Len(meta))
    \o meta \o NodeRecords(w, ns) \o NameRecords(nm)

\* hd.UnmarshalBinary: the fields of the 20-byte header.
hdUnmarshalBinary(header) ==
  LET version == (header[1] % 128) * 16777216 + header[2] * 65536
                   + header[3] * 256 + header[4]
      large == header[1] >= 128
  IN IF Len(header) # HeaderSize \/ version # 1
     THEN [err |-> TRUE, hasLargeNamespace |-> large, nodeSize |-> NodeSize(large),
           total |-> 0, nodesLen |-> 0, namesLen |-> 0, metadataLen |-> 0,
           meta |-> ZeroMetadata]
     ELSE [err |-> FALSE,
           hasLargeNamespace |-> large,
           nodeSize |-> NodeSize(large),
           total |-> Uint32(SubSeq(header, 5, 8)),
           nodesLen |-> Uint32(SubSeq(header, 9, 12)),
           namesLen |-> Uint32(SubSeq(header, 13, 16)),
           metadataLen |-> Uint32(SubSeq(header, 17, 20)),
           meta |-> ZeroMetadata]

\* LoadFromFile: the in-memory index decoded from a file of the versioned format.
LoadFromFile(data) ==
  LET hr == ReadFull(data, 0, HeaderSize)
  IN IF hr.err THEN [NewIndex EXCEPT !.err = "read header"]
     ELSE LET h == hdUnmarshalBinary(hr.buf)
          IN IF h.err THEN [NewIndex EXCEPT !.err = "unmarshal header"]
             ELSE IF ReadFull(data, HeaderSize, h.metadataLen).err
             THEN [NewIndex EXCEPT !.err = "read metadata"]
             ELSE LoadBody(h.hasLargeNamespace, data, HeaderSize + h.metadataLen,
                           h.total, h.nodesLen, h.namesLen)

DoSaveVersioned ==
  \E meta \in Metadatas :
    /\ Building
    /\ file' = SaveVersioned(wide, total, nodes, names, meta)
    /\ headerLen' = HeaderSize
    /\ UNCHANGED <<wide, nodes, names, idByName, total, log, minimized, ret,
                   loaded, opened, found>>
    /\ UNCHANGED extVars

DoLoadFromFile ==
  /\ headerLen = HeaderSize
  /\ loaded = None
  /\ loaded' = LoadFromFile(file)
  /\ UNCHANGED <<wide, nodes, names, idByName, total, log, minimized, ret,
                 file, headerLen, opened, found>>
  /\ UNCHANGED extVars

(* ------------------------------ bufReaderAt --------------------------- *)
DefaultBufferSize == 4096

\* Options.BufferSize as callers set it: 0 turns the cache off.
BufferSizes == {0, 7, 16, DefaultBufferSize}

\* os.File.ReadAt(b, off) on a file that holds data: the bytes copied to the
\* front of b, their count, io.EOF when they are fewer than len(b).
FileReadAt(data, b, off) ==
  LET avail == IF off < Len(data) THEN Len(data) - off ELSE 0
      n == IF avail < Len(b) THEN avail ELSE Len(b)
  IN [n |-> n, err |-> IF n < Len(b) THEN "EOF" ELSE "nil",
      b |-> [i \in 1..Len(b) |-> IF i <= n THEN data[off + i] ELSE b[i]]]

\* buf is the slice make([]byte, size): its length and its bytes.
newBufReaderAt(size) ==
  [offset |-> 0, buf |-> [len |-> size, bytes |-> Zeros(size)], sizeTilEOF |-> -1,
   lastErr |-> "nil"]

bufSize(r) == r.buf.len
cacheOffset(r, offset) == (offset \div bufSize(r)) * bufSize(r)
expectedCacheEnd(r, offset) == cacheOffset(r, offset) + bufSize(r)
cacheEnd(r) == r.offset + bufSize(r)
dataEnd(r) == r.offset + r.sizeTilEOF
isInitialized(r) == 0 <= r.sizeTilEOF

\* bufReaderAt.readAtAndRenewCache, rd being what r.readerAt.ReadAt(r.buf,
\* expOffset) returns when it is called: the reader after it, the count, the
\* error.
readAtAndRenewCacheOn(r, rd, offset) ==
  LET expOffset == cacheOffset(r, offset)
  IN IF isInitialized(r) /\ expOffset = r.offset THEN [r |-> r, n |-> 0, err |-> "nil"]
     ELSE [r |-> [offset |-> expOffset, buf |-> [len |-> r.buf.len, bytes |-> rd.b],
                  sizeTilEOF |-> rd.n,
                  lastErr |-> rd.err],
           n |-> rd.n, err |-> rd.err]

\* The same over a file that holds data.
readAtAndRenewCache(r, data, offset) ==
  readAtAndRenewCacheOn(r, FileReadAt(data, r.buf.bytes, cacheOffset(r, offset)), offset)

\* copySafe that takes the whole request from the block, past the end of the data.
copySafe_PastEOF(r, b, off) ==
  [r |-> r, n |-> Len(b), err |-> "nil",
   b |-> [i \in 1..Len(b) |-> r.buf.bytes[off - cacheOffset(r, off) + i]]]

\* bufReaderAt.copySafe; the slice r.buf[s:e] panics when s > e or e > len(buf).
copySafe(r, b, off) ==
  LET bufEnd == off + Len(b)
      s == off - cacheOffset(r, off)
      short == off < dataEnd(r) /\ dataEnd(r) < bufEnd
      e == IF short THEN r.sizeTilEOF
           ELSE IF bufEnd <= dataEnd(r) THEN s + Len(b) ELSE 0
  IN IF dataEnd(r) <= off THEN [r |-> r, n |-> 0, err |-> "EOF", b |-> b]
     ELSE IF s > e \/ e > bufSize(r) THEN [r |-> r, n |-> 0, err |-> "panic", b |-> b]
     ELSE [r |-> r, n |-> e - s, err |-> IF short THEN r.lastErr ELSE "nil",
           b |-> [i \in 1..Len(b) |-> IF i <= e - s THEN r.buf.bytes[s + i] ELSE b[i]]]

\* bufReaderAt.ReadAt, direct being what r.readerAt.ReadAt(b, offset) returns
\* and renew what readAtAndRenewCache(offset) returns, when they are called.
bufReadAtOn(r, direct, renew, b, offset) ==
  LET bufEnd == offset + Len(b)
  IN IF \/ offset < cacheOffset(r, offset) /\ cacheOffset(r, offset) < bufEnd
        \/ offset < expectedCacheEnd(r, offset) /\ expectedCacheEnd(r, offset) < bufEnd
     THEN [r |-> r, n |-> direct.n, err |-> direct.err, b |-> direct.b]
     ELSE IF \/ ~isInitialized(r)
             \/ expectedCacheEnd(r, offset) <= r.offset
             \/ cacheEnd(r) <= cacheOffset(r, offset)
     THEN IF renew.n = 0 THEN [r |-> renew.r, n |-> 0, err |-> renew.err, b |-> b]
          ELSE copySafe(renew.r, b, offset)
     ELSE IF r.offset <= offset /\ bufEnd <= cacheEnd(r)
     THEN copySafe(r, b, offset)
     ELSE [r |-> r, n |-> 0, err |-> "nil", b |-> b]

\* bufReaderAt.ReadAt over the file data.
bufReadAt(r, data, b, offset) ==
  bufReadAtOn(r, FileReadAt(data, b, offset), readAtAndRenewCache(r, data, offset),
              b, offset)

\* idx.r.ReadAt: the cache when Open made one (r is its state), else the file.
ReadAt(r, data, b, offset) ==
  IF r = None
  THEN LET rd == FileReadAt(data, b, offset)
       IN [r |-> r, n |-> rd.n, err |-> rd.err, b |-> rd.b]
  ELSE bufReadAt(r, data, b, offset)

\* ReadAtReads that reports no read of the source.
ReadAtReads_None(r, b, offset) == <<>>

\* The reads bufReaderAt.ReadAt issues to r.readerAt, each <<offset, length>>:
\* the request itself when it crosses a block boundary, the aligned block when
\* readAtAndRenewCache renews the cache, none when the cache answers.
ReadAtReads(r, b, offset) ==
  IF \/ offset < cacheOffset(r, offset) /\ cacheOffset(r, offset) < offset + Len(b)
     \/ offset < expectedCacheEnd(r, offset) /\ expectedCacheEnd(r, offset) < offset + Len(b)
  THEN << <<offset, Len(b)>> >>
  ELSE IF \/ ~isInitialized(r)
          \/ expectedCacheEnd(r, offset) <= r.offset
          \/ cacheEnd(r) <= cacheOffset(r, offset)
  THEN IF isInitialized(r) /\ cacheOffset(r, offset) = r.offset THEN <<>>
       ELSE << <<cacheOffset(r, offset), bufSize(r)>> >>
  ELSE <<>>

(* ------------------- the block cache over a fixed source -------------- *)
MaxReadOffset == 9
MaxReadLen == 4

\* The sizes of the cache and the lengths of the source, in bytes.
CacheSizes == {1, 3, 4}
SourceLens == {0, 5, 8}

\* A source of n bytes, each byte telling its position.
SourceBytes(n) == [i \in 1..n |-> i]

\* A bufReaderAt of some size over a source of some length; no index.
CacheInit ==
  /\ wide = FALSE
  /\ nodes = <<EmptyNode>>
  /\ names = <<>>
  /\ idByName = <<>>
  /\ total = 0
  /\ log = <<>>
  /\ minimized = 0
  /\ ret = "nil"
  /\ file \in {SourceBytes(n) : n \in SourceLens}
  /\ headerLen = 0
  /\ loaded = None
  /\ opened = None
  /\ found = None
  /\ idxMeta = ZeroMetadata
  /\ mu = 0
  /\ calls = [g \in Goroutines |-> Idle]
  /\ cache \in {newBufReaderAt(size) : size \in CacheSizes}
  /\ read = None

\* The outcome of cache.ReadAt(b, off) next to that of the same ReadAt on the source.
ReadOutcome(off, b, res, direct, reads) ==
  [off |-> off, len |-> Len(b), n |-> res.n, err |-> res.err, b |-> res.b,
   direct |-> [n |-> direct.n, err |-> direct.err, b |-> direct.b],
   reads |-> reads]

\* cache.ReadAt(make([]byte, len), off).
CacheReadAt ==
  \E off \in 0..MaxReadOffset, len \in 1..MaxReadLen :
    /\ cache # None
    /\ cache' = bufReadAt(cache, file, Zeros(len), off).r
    /\ read' = ReadOutcome(off, Zeros(len), bufReadAt(cache, file, Zeros(len), off),
                           FileReadAt(file, Zeros(len), off),
                           ReadAtReads(cache, Zeros(len), off))
    /\ UNCHANGED <<wide, nodes, names, idByName, total, log, minimized, ret,
                   file, headerLen, loaded, opened, found, idxMeta, mu, calls>>

CacheNext == CacheReadAt

CacheSpec == CacheInit /\ [][CacheNext]_vars

(* ----------------------------- CIDRIndexFile -------------------------- *)
\* One iteration of the loop of readNames, label i: s holds the reader, the
\* offset, the names read and the error.
readNamesStep(s, data, i) ==
  LET l == ReadAt(s.r, data, Zeros(4), s.offset)
  IN IF l.err \notin {"nil", "EOF"} THEN [s EXCEPT !.r = l.r, !.err = "read name length"]
     ELSE LET nameLen == Uint32(l.b)
              nb == ReadAt(l.r, data, Zeros(nameLen), s.offset + 4)
          IN IF nb.err # "nil" THEN [s EXCEPT !.r = nb.r, !.err = "read name"]
             ELSE [r |-> nb.r, offset |-> s.offset + 4 + nameLen,
                   names |-> [s.names EXCEPT ![i + 1] = nb.b], err |-> "nil"]

\* for i := lo; i < hi; i++ { readNamesStep }.
RECURSIVE readNames(_, _, _, _)
readNames(s, data, lo, hi) ==
  IF lo >= hi \/ s.err # "nil" THEN s
  ELSE readNames(readNamesStep(s, data, lo), data, lo + 1, hi)

\* newCIDRIndexFile: the file-backed index for header h over the reader r.
newCIDRIndexFile(r, h, data) ==
  LET nodesOffset == HeaderSize + h.metadataLen
      namesOffset == nodesOffset + h.nodesLen * h.nodeSize
      s == readNames([r |-> r, offset |-> namesOffset,
                      names |-> [i \in 1..h.namesLen |-> EmptyString], err |-> "nil"],
                     data, 0, h.namesLen)
  IN [err |-> s.err, r |-> s.r, large |-> h.hasLargeNamespace,
      nodesOffset |-> nodesOffset, nodeSize |-> h.nodeSize, nodesLen |-> h.nodesLen,
      namesOffset |-> namesOffset, namesLen |-> h.namesLen,
      names |-> s.names, total |-> h.total, meta |-> h.meta]

\* json.Unmarshal of the metadata region into h.meta: the JSON texts written are
\* valid, and the object {} sets no field.
jsonUnmarshal(buf, meta) == [err |-> buf \notin Metadatas, meta |-> meta]

\* Open over a file that holds data, with Options.BufferSize = bufferSize.
Open(data, bufferSize) ==
  LET r == IF bufferSize > 0 THEN newBufReaderAt(bufferSize) ELSE None
      hr == ReadAt(r, data, Zeros(HeaderSize), 0)
      h == hdUnmarshalBinary(hr.b)
      mr == ReadAt(hr.r, data, Zeros(h.metadataLen), HeaderSize)
  IN IF hr.err # "nil" THEN [err |-> "read header"]
     ELSE IF h.err THEN [err |-> "unmarshal header"]
     ELSE IF h.metadataLen > 0 /\ mr.err # "nil" THEN [err |-> "read metadata"]
     ELSE IF h.metadataLen > 0 /\ jsonUnmarshal(mr.b, h.meta).err
          THEN [err |-> "unmarshal metadata"]
     ELSE newCIDRIndexFile(IF h.metadataLen > 0 THEN mr.r ELSE hr.r,
                           IF h.metadataLen > 0
                           THEN [h EXCEPT !.meta = jsonUnmarshal(mr.b, h.meta).meta]
                           ELSE h,
                           data)

\* The rest of readNode once ReadAt has returned rd and the bytes are decoded.
readNodeDecode(idx, rd, u) ==
  IF rd.err # "nil" THEN [r |-> rd.r, b |-> rd.b, err |-> "read node"]
  ELSE IF rd.n # idx.nodeSize THEN [r |-> rd.r, b |-> rd.b, err |-> "unexpected size"]
  ELSE IF u.err THEN [r |-> rd.r, b |-> rd.b, err |-> "unmarshal node"]
  ELSE [r |-> rd.r, b |-> rd.b, err |-> "nil", node |-> u.node]

readNodeRead(idx, rd) == readNodeDecode(idx, rd, UnmarshalBinary(idx.large, rd.b))

\* CIDRIndexFile.readNode of node id into b, over the reader r.
readNode(idx, r, data, id, b) ==
  readNodeRead(idx, ReadAt(r, data, b, idx.nodesOffset + id * idx.nodeSize))

\* lookupIPAt that keeps the first stamped node it meets, not the longest.
lookupIPAt_KeepsFirst(s, rn, ip, i) ==
  IF rn.err # "nil" THEN [s EXCEPT !.r = rn.r, !.b = rn.b, !.err = rn.err, !.brk = TRUE]
  ELSE [s EXCEPT
          !.r = rn.r,
          !.b = rn.b,
          !.bestID = IF rn.node.id # -1 /\ s.bestID = -1 THEN rn.node.id ELSE @,
          !.bestMaskLen = IF rn.node.id # -1 /\ s.bestID = -1 THEN IPv6Bits ELSE @,
          !.brk = (rn.node.children[Bit(ip, i) + 1] = -1),
          !.current = IF rn.node.children[Bit(ip, i) + 1] = -1 THEN @
                      ELSE rn.node.children[Bit(ip, i) + 1]]

\* The body of the loop of lookupIP at bit i, once readNode has returned rn:
\* the best match is updated, then the child of the next bit is followed; brk
\* is the loop's break or its return on a read error.
lookupIPAt(s, rn, ip, i) ==
  IF rn.err # "nil" THEN [s EXCEPT !.r = rn.r, !.b = rn.b, !.err = rn.err, !.brk = TRUE]
  ELSE [s EXCEPT
          !.r = rn.r,
          !.b = rn.b,
          !.bestID = IF Better(rn.node, s.bestMaskLen) THEN rn.node.id ELSE @,
          !.bestMaskLen = IF Better(rn.node, s.bestMaskLen) THEN rn.node.maskLen ELSE @,
          !.brk = (rn.node.children[Bit(ip, i) + 1] = -1),
          !.current = IF rn.node.children[Bit(ip, i) + 1] = -1 THEN @
                      ELSE rn.node.children[Bit(ip, i) + 1]]

\* One iteration of the loop of lookupIP, at bit i.
lookupIPStep(s, idx, data, ip, i) ==
  lookupIPAt(s, readNode(idx, s.r, data, s.current, s.b), ip, i)

\* for i := lo; i < hi; i++ { lookupIPStep }, the range split in halves: the
\* second half starts from the state the first half leaves.
RECURSIVE lookupIPLoop(_, _, _, _, _, _)
lookupIPLoop(s, idx, data, ip, lo, hi) ==
  IF lo >= hi \/ s.brk THEN s
  ELSE IF hi = lo + 1 THEN lookupIPStep(s, idx, data, ip, lo)
  ELSE lookupIPLoop(lookupIPLoop(s, idx, data, ip, lo, (lo + hi) \div 2),
                    idx, data, ip, (lo + hi) \div 2, hi)

\* The end of lookupIP, once the last readNode has returned rn: the final
\* node is checked for a better match and the label is returned.
lookupIPLast(idx, w, rn) ==
  IF rn.err # "nil" THEN [r |-> rn.r, label |-> EmptyString, err |-> rn.err]
  ELSE IF Better(rn.node, w.bestMaskLen)
  THEN [r |-> rn.r, label |-> idx.names[rn.node.id], err |-> "nil"]
  ELSE IF w.bestID = -1 THEN [r |-> rn.r, label |-> EmptyString, err |-> "nil"]
  ELSE [r |-> rn.r, label |-> idx.names[w.bestID], err |-> "nil"]

\* lookupIPAfterLoop that returns, with the error, the label found before it.
lookupIPAfterLoop_KeepsLabel(idx, data, w) ==
  IF w.err # "nil"
  THEN [r |-> w.r, label |-> IF w.bestID = -1 THEN EmptyString ELSE idx.names[w.bestID],
        err |-> w.err]
  ELSE lookupIPLast(idx, w, readNode(idx, w.r, data, w.current, w.b))

\* lookupIP after the loop has left w.
lookupIPAfterLoop(idx, data, w) ==
  IF w.err # "nil" THEN [r |-> w.r, label |-> EmptyString, err |-> w.err]
  ELSE lookupIPLast(idx, w, readNode(idx, w.r, data, w.current, w.b))

\* The walk of lookupIP over the octets ip.
lookupIPWalk(idx, data, ip) ==
  lookupIPAfterLoop(idx, data,
    lookupIPLoop([r |-> idx.r, b |-> Zeros(idx.nodeSize), current |-> 0,
                  bestID |-> -1, bestMaskLen |-> -1, brk |-> FALSE, err |-> "nil"],
                 idx, data, ip, 0, IF Len(ip) = IPv4len THEN IPv4Bits ELSE IPv6Bits))

\* CIDRIndexFile.lookupIP: the reader after it, the label, the error.
lookupIP(idx, data, ip0) == lookupIPWalk(idx, data, Canonical(ip0))

\* CIDRIndexFile.Lookup: "" for an invalid text; an error of lookupIP is a panic.
FileLookup(idx, data, t) ==
  LET ip == ParseIP(t)
  IN IF ip = <<>> THEN [r |-> idx.r, label |-> EmptyString, err |-> "nil"]
     ELSE lookupIP(idx, data, ip)

(* ------------------- the codec and the file-backed index -------------- *)
\* The prefixes of the indexes that are written and read back.
CodecCIDRs ==
  { V4Text(<<0, 0, 0, 0>>, 0),                              \* 0.0.0.0/0
    V4Text(<<192, 168, 0, 0>>, 16),                         \* 192.168.0.0/16
    V6Text(Addr2001db8(1), 128) }                           \* 2001:db8::1/128

\* The address texts looked up in the file-backed index.
FileQueries ==
  { IPText(TRUE, <<192, 168, 1, 100>>),
    IPText(TRUE, <<10, 1, 2, 3>>),
    IPText(TRUE, Addr2001db8(1)),                           \* 2001:db8::1
    IPText(TRUE, Zeros(15) \o <<1>>),                       \* ::1
    IPText(FALSE, <<>>) }                                   \* invalid

DoOpen ==
  \E size \in BufferSizes :
    /\ headerLen = HeaderSize
    /\ loaded # None
    /\ opened = None
    /\ opened' = Open(file, size)
    /\ UNCHANGED <<wide, nodes, names, idByName, total, log, minimized, ret,
                   file, headerLen, loaded, found>>
    /\ UNCHANGED extVars

DoFileLookup ==
  \E q \in FileQueries :
    /\ opened # None
    /\ opened.err = "nil"
    /\ LET res == FileLookup(opened, file, q)
       IN /\ opened' = [opened EXCEPT !.r = res.r]
          /\ found' = [q |-> q, label |-> res.label, err |-> res.err]
    /\ UNCHANGED <<wide, nodes, names, idByName, total, log, minimized, ret,
                   file, headerLen, loaded>>
    /\ UNCHANGED extVars

CodecAdd ==
  \E c \in CodecCIDRs, name \in Labels :
    Building /\ minimized = 0 /\ Len(log) < MaxAdds /\ AddCIDR(c, name)

CodecMinimize == Building /\ minimized = 0 /\ Minimize

CodecNext ==
  \/ CodecAdd \/ CodecMinimize
  \/ DoSave \/ DoLoad
  \/ DoSaveVersioned \/ DoLoadFromFile \/ DoOpen \/ DoFileLookup

CodecSpec == Init /\ [][CodecNext]_vars

(* ------------- concurrent lookups on the file-backed index ------------ *)
\* The prefixes of the file the goroutines look up in.
ConcCIDRs ==
  { V4Text(<<0, 0, 0, 0>>, 0),                              \* 0.0.0.0/0
    V4Text(<<192, 168, 0, 0>>, 16) }                        \* 192.168.0.0/16

\* The addresses the goroutines look up.
ConcQueries ==
  { IPText(TRUE, <<192, 168, 1, 100>>),
    IPText(TRUE, <<10, 1, 2, 3>>),
    IPText(FALSE, <<>>) }                                   \* invalid

\* Options.BufferSize of the index the goroutines share.
ConcBufferSizes == {0, 16}

\* The three entry points of a lookup.
LookupKinds == {"Lookup", "LookupIP", "SafeLookupIP"}

ConcAdd ==
  \E c \in ConcCIDRs, name \in Labels :
    Building /\ Len(log) < MaxAdds /\ AddCIDR(c, name)

\* The index is written in the versioned format, with no metadata.
ConcSave ==
  /\ Building /\ Len(log) > 0
  /\ file' = SaveVersioned(wide, total, nodes, names, <<>>)
  /\ headerLen' = HeaderSize
  /\ UNCHANGED <<wide, nodes, names, idByName, total, log, minimized, ret,
                 loaded, opened, found>>
  /\ UNCHANGED extVars

ConcOpen ==
  \E size \in ConcBufferSizes :
    /\ headerLen = HeaderSize
    /\ opened = None
    /\ opened' = Open(file, size)
    /\ UNCHANGED <<wide, nodes, names, idByName, total, log, minimized, ret,
                   file, headerLen, loaded, found>>
    /\ UNCHANGED extVars

\* What a step of a goroutine leaves alone besides calls, mu and opened.
ConcFrame ==
  UNCHANGED <<wide, nodes, names, idByName, total, log, minimized, ret,
              file, headerLen, loaded, found, idxMeta, cache, read>>

\* Goroutine g calls Lookup, LookupIP or SafeLookupIP: Lookup returns "" at
\* once for an invalid text, the others are handed a parsed address; the
\* goroutine is then at idx.mu.Lock().
ConcCallOf(g, kind, q) ==
  /\ opened # None /\ opened.err = "nil"
  /\ calls[g].pc \in {"idle", "done"}
  /\ kind = "Lookup" \/ q.ok
  /\ calls' = [calls EXCEPT ![g] =
                 IF ParseIP(q) = <<>>
                 THEN [pc |-> "done", kind |-> kind, q |-> q, label |-> EmptyString,
                       err |-> "nil", panic |-> FALSE]
                 ELSE [pc |-> "lock", kind |-> kind, q |-> q]]
  /\ UNCHANGED <<mu, opened>>
  /\ ConcFrame

ConcCall(g) == \E kind \in LookupKinds, q \in ConcQueries : ConcCallOf(g, kind, q)

\* idx.mu.Lock() with no wait for the goroutine that holds the mutex.
ConcLock_NoWait(g) ==
  /\ calls[g].pc = "lock"
  /\ mu' = g
  /\ calls' = [calls EXCEPT ![g] =
                 [pc |-> "loop", kind |-> calls[g].kind, q |-> calls[g].q,
                  ip |-> Canonical(ParseIP(calls[g].q)), i |-> 0,
                  s |-> [r |-> None, b |-> Zeros(opened.nodeSize), current |-> 0,
                         bestID |-> -1, bestMaskLen |-> -1, brk |-> FALSE, err |-> "nil"]]]
  /\ UNCHANGED opened
  /\ ConcFrame

\* idx.mu.Lock() in lookupIP returns once no goroutine holds the mutex; the
\* goroutine is then before the loop, with its own node buffer b.
ConcLock(g) ==
  /\ calls[g].pc = "lock"
  /\ mu = 0
  /\ mu' = g
  /\ calls' = [calls EXCEPT ![g] =
                 [pc |-> "loop", kind |-> calls[g].kind, q |-> calls[g].q,
                  ip |-> Canonical(ParseIP(calls[g].q)), i |-> 0,
                  s |-> [r |-> None, b |-> Zeros(opened.nodeSize), current |-> 0,
                         bestID |-> -1, bestMaskLen |-> -1, brk |-> FALSE, err |-> "nil"]]]
  /\ UNCHANGED opened
  /\ ConcFrame

\* The loop of goroutine g has not ended.
InLoop(g) ==
  /\ calls[g].pc = "loop"
  /\ calls[g].i < (IF Len(calls[g].ip) = IPv4len THEN IPv4Bits ELSE IPv6Bits)
  /\ ~calls[g].s.brk

\* The state s1 that one iteration of the loop leaves: the reader of the
\* index is the one all goroutines share.
ConcStepTo(g, s1) ==
  /\ opened' = [opened EXCEPT !.r = s1.r]
  /\ calls' = [calls EXCEPT ![g].s = [s1 EXCEPT !.r = None], ![g].i = calls[g].i + 1]

\* One iteration of the loop of lookupIP in goroutine g.
ConcStep(g) ==
  /\ InLoop(g)
  /\ \E s1 \in {lookupIPStep([calls[g].s EXCEPT !.r = opened.r], opened, file,
                              calls[g].ip, calls[g].i)} :
       ConcStepTo(g, s1)
  /\ UNCHANGED mu
  /\ ConcFrame

\* The return that unlocks the mutex only when lookupIP returns no error.
ConcReturnWith_KeepsLockOnError(g, res) ==
  /\ opened' = [opened EXCEPT !.r = res.r]
  /\ mu' = IF res.err # "nil" THEN mu ELSE 0
  /\ calls' = [calls EXCEPT ![g] =
                 [pc |-> "done", kind |-> calls[g].kind, q |-> calls[g].q,
                  label |-> res.label, err |-> res.err,
                  panic |-> res.err # "nil" /\ calls[g].kind # "SafeLookupIP"]]

\* The return of the call of goroutine g with the result res of lookupIP: the
\* deferred idx.mu.Unlock(), then the panic of Lookup and LookupIP on an error.
ConcReturnWith(g, res) ==
  /\ opened' = [opened EXCEPT !.r = res.r]
  /\ mu' = 0
  /\ calls' = [calls EXCEPT ![g] =
                 [pc |-> "done", kind |-> calls[g].kind, q |-> calls[g].q,
                  label |-> res.label, err |-> res.err,
                  panic |-> res.err # "nil" /\ calls[g].kind # "SafeLookupIP"]]

\* The end of lookupIP in goroutine g: the final node, the label, the return.
ConcReturn(g) ==
  /\ calls[g].pc = "loop"
  /\ ~InLoop(g)
  /\ \E res \in {lookupIPAfterLoop(opened, file, [calls[g].s EXCEPT !.r = opened.r])} :
       ConcReturnWith(g, res)
  /\ ConcFrame

ConcNext ==
  \/ ConcAdd \/ ConcSave \/ ConcOpen
  \/ \E g \in Goroutines : ConcCall(g)
  \/ \E g \in Goroutines : ConcLock(g)
  \/ \E g \in Goroutines : ConcStep(g)
  \/ \E g \in Goroutines : ConcReturn(g)

ConcSpec == Init /\ [][ConcNext]_vars

(* ------------- lookups on a file that has lost its end ---------------- *)
\* The lengths the file is cut to once it is open: the node records gone, or
\* the root left with the first bytes of node 1.
CutLengths(idx) == {idx.nodesOffset, idx.nodesOffset + idx.nodeSize + 5}

\* The file is truncated under the open index.
Truncate ==
  /\ opened # None
  /\ opened.err = "nil"
  /\ \E k \in CutLengths(opened) : k < Len(file) /\ file' = SubSeq(file, 1, k)
  /\ UNCHANGED <<wide, nodes, names, idByName, total, log, minimized, ret,
                 headerLen, loaded, opened, found>>
  /\ UNCHANGED extVars

\* The outcome of a lookup of kind kind for the text q, lookupIP having
\* returned res: SafeLookupIP returns the label and the error, Lookup and
\* LookupIP panic with the error. The length of the file at the call and
\* whether a cache stood before it are kept with the outcome.
LookedUp(kind, q, res) ==
  /\ opened' = [opened EXCEPT !.r = res.r]
  /\ found' = [kind |-> kind, q |-> q, fileLen |-> Len(file), cached |-> opened.r # None,
               label |-> res.label, err |-> res.err,
               panic |-> res.err # "nil" /\ kind # "SafeLookupIP"]

\* Lookup, LookupIP or SafeLookupIP on the open index, as one call.
FaultLookup ==
  \E kind \in LookupKinds, q \in ConcQueries :
    /\ opened # None /\ opened.err = "nil"
    /\ kind = "Lookup" \/ q.ok
    /\ LookedUp(kind, q, FileLookup(opened, file, q))
    /\ UNCHANGED <<wide, nodes, names, idByName, total, log, minimized, ret,
                   file, headerLen, loaded>>
    /\ UNCHANGED extVars

FaultNext == ConcAdd \/ ConcSave \/ ConcOpen \/ Truncate \/ FaultLookup

FaultSpec == Init /\ [][FaultNext]_vars

(* ------------------------ reference definitions ----------------------- *)
\* The calls of the log that returned: the insertions that succeeded.
Inserted == {k \in 1..Len(log) : log[k][4]}

\* Prefix k of the log contains the address a, of the same family.
Contains(k, a) ==
  /\ Len(log[k][1]) = Len(a)
  /\ \A i \in 0..(log[k][2] - 1) : Bit(log[k][1], i) = Bit(a, i)

\* The label longest-prefix match gives a: of the inserted prefixes that contain
\* a, the one with the greatest mask length, as last inserted; "" if none.
Expected(a) ==
  LET M == {k \in Inserted : Contains(k, a)}
  IN IF M = {} THEN EmptyString
     ELSE LET k == CHOOSE j \in M :
                     \A m \in M : log[m][2] < log[j][2] \/ (log[m][2] = log[j][2] /\ m <= j)
          IN log[k][3]

\* The octets LookupIP walks for the address text q.
QueryOctets(q) == Canonical(ParseIP(q))

OneFamily == \A j, k \in Inserted : Len(log[j][1]) = Len(log[k][1])

HoldsBothFamilies ==
  /\ \E k \in Inserted : Len(log[k][1]) = IPv4len
  /\ \E k \in Inserted : Len(log[k][1]) = IPv6len

\* The labels inserted under some prefix of the family with n octets.
LabelsOfFamily(n) == {log[k][3] : k \in {j \in Inserted : Len(log[j][1]) = n}}

(* -------------------------------- claims ------------------------------ *)
\* C1: on a fresh index whose inserted prefixes all belong to one address
\* family, Lookup of every address of that family returns the label of the
\* longest inserted prefix that contains it (the last inserted label of that
\* prefix), and "" when no inserted prefix contains it.
C1_LongestPrefixMatch ==
  (minimized = 0 /\ ret # "panic" /\ OneFamily) =>
    \A q \in Queries :
      (q.ok /\ \A k \in Inserted : Len(log[k][1]) = Len(QueryOctets(q))) =>
        Lookup(nodes, names, q) = Expected(QueryOctets(q))

\* C2: in an index that holds IPv4 and IPv6 prefixes, a lookup of an address
\* of one family never returns a label that was inserted only under prefixes of
\* the other family.
C2_FamilyIsolation ==
  (minimized = 0 /\ ret # "panic" /\ HoldsBothFamilies) =>
    \A q \in Queries :
      q.ok => Lookup(nodes, names, q) \in {EmptyString} \cup LabelsOfFamily(Len(QueryOctets(q)))

\* C3: Minimize on an index built by insertions leaves the result of Lookup
\* the same for every address.
C3_MinimizePreservesLookups ==
  [][(minimized = 0 /\ minimized' = 1) =>
       \A q \in Queries : Lookup(nodes', names', q) = Lookup(nodes, names, q)]_vars

\* C4, as the claim has it: a second Minimize on a minimized index leaves the
\* node array and every lookup result as the first call left them.
C4_MinimizeIdempotent ==
  [][(minimized >= 1 /\ minimized' = minimized + 1) =>
       /\ nodes' = nodes
       /\ \A q \in Queries : Lookup(nodes', names', q) = Lookup(nodes, names, q)]_vars

\* C4, amended: a second Minimize keeps the label table, the reverse map and
\* Len(), keeps the id and mask length of the root at node 0 and never
\* lengthens the node array (the rest of the array and the lookups can change).
C4_SecondMinimizeKeeps ==
  [][(minimized >= 1 /\ minimized' = minimized + 1) =>
       /\ names' = names /\ idByName' = idByName /\ total' = total
       /\ Len(nodes') <= Len(nodes)
       /\ nodes'[1].id = nodes[1].id /\ nodes'[1].maskLen = nodes[1].maskLen]_vars

\* A second Minimize has run on an index that holds a stamped root and more nodes.
C4_Witness == minimized = 2 /\ Len(nodes) > 1 /\ nodes[1].id # -1

(* ---------------------- reference: labels and paths ------------------- *)
\* The node reached from cur along bits lo..hi-1 of ip; -1 when the path ends.
RECURSIVE Descend(_, _, _, _, _)
Descend(ns, cur, ip, lo, hi) ==
  IF lo >= hi THEN cur
  ELSE IF hi = lo + 1 THEN ns[cur + 1].children[Bit(ip, lo) + 1]
  ELSE LET mid == (lo + hi) \div 2
           m == Descend(ns, cur, ip, lo, mid)
       IN IF m = -1 THEN -1 ELSE Descend(ns, m, ip, mid, hi)

\* The labels AddNet was called with, and the call that first used each.
UsedLabels == {log[k][3] : k \in 1..Len(log)}
FirstUse(name) == CHOOSE k \in 1..Len(log) :
                    log[k][3] = name /\ \A j \in 1..(k - 1) : log[j][3] # name

\* The position of name among the labels in order of first use.
Rank(name) == Cardinality({n \in UsedLabels : FirstUse(n) <= FirstUse(name)})

SamePrefix(j, k) == log[j][1] = log[k][1] /\ log[j][2] = log[k][2]

\* Insertions j and k end at the same node: the same bits, of either family.
SamePath(j, k) ==
  /\ log[j][2] = log[k][2]
  /\ \A i \in 0..(log[j][2] - 1) : Bit(log[j][1], i) = Bit(log[k][1], i)

\* Prefixes j and k have no address in common: neither contains the other.
Disjoint(j, k) ==
  \/ Len(log[j][1]) # Len(log[k][1])
  \/ \E i \in 0..(log[j][2] - 1) :
        i < log[k][2] /\ Bit(log[j][1], i) # Bit(log[k][1], i)

\* The text is not a valid CIDR: no address, no mask, or a mask out of range.
NotValidCIDR(t) ==
  \/ ~t.slash \/ ~t.addrOK \/ ~t.maskNum
  \/ (~t.v6 /\ t.mask > 32) \/ (t.v6 /\ t.mask > 128)

\* C7: the label table holds each label once, ids are 1..N in order of first
\* use, idByName inverts names, an insertion stamps its prefix with the id of
\* its label, and one label under two disjoint prefixes gives LenNames() = 1
\* and Len() = 2.
C7_LabelInterning ==
  minimized = 0 =>
    /\ Len(names) = Cardinality(UsedLabels)
    /\ DOMAIN idByName = UsedLabels
    /\ \A i \in 1..Len(names) :
          names[i] \in UsedLabels /\ Rank(names[i]) = i /\ idByName[names[i]] = i
    /\ \A k \in Inserted :
          (\A j \in Inserted : SamePath(j, k) => j <= k) =>
            nodes[Descend(nodes, 0, log[k][1], 0, log[k][2]) + 1].id = Rank(log[k][3])
    /\ (Len(log) = 2 /\ Inserted = {1, 2} /\ Disjoint(1, 2) /\ log[1][3] = log[2][3]) =>
          (Cardinality(DOMAIN idByName) = 1 /\ total = 2)

\* One label inserted under two disjoint prefixes.
C7_Witness ==
  /\ Len(log) = 2 /\ Inserted = {1, 2} /\ Disjoint(1, 2) /\ log[1][3] = log[2][3]
  /\ Cardinality(DOMAIN idByName) = 1 /\ total = 2

\* C8: Len() is the number of insertions that succeeded, an overwrite of a
\* stamped prefix counted as one more, a failed AddCIDR not counted.
C8_LenCountsInsertions == total = Cardinality(Inserted)

\* A failed AddCIDR after an insertion that overwrote a stamped prefix.
C8_Witness ==
  /\ ret = "invalid CIDR"
  /\ Inserted = {1, 2} /\ SamePrefix(1, 2)
  /\ total = 2

\* C9: AddCIDR with text that is not a valid CIDR returns an error and leaves
\* the node array, the label table, the reverse label map and Len() unchanged.
C9_InvalidCIDRLeavesIndex ==
  [][\A c \in CIDRTexts, name \in Labels :
       (NotValidCIDR(c) /\ CanCall /\ AddCIDR(c, name)) =>
         /\ ret' = "invalid CIDR"
         /\ nodes' = nodes /\ names' = names /\ idByName' = idByName /\ total' = total]_vars

\* A failed AddCIDR on an index that holds prefixes and labels.
C9_Witness == ret = "invalid CIDR" /\ Len(nodes) > 1 /\ Len(names) = 2 /\ total = 2

\* C10: AddCIDR never panics: it returns the invalid-CIDR error or inserts and
\* returns nil, with every octet index in range.
C10_AddCIDRNeverPanics == ret \in {"nil", "invalid CIDR"}

\* C5: for every index built by insertions, minimized or not, Load of the
\* bytes Save wrote, into a new index of the same id type, succeeds and gives
\* the same Len(), the same LenNames(), the same number of nodes and the same
\* Lookup for every address.
C5_SaveLoadRoundTrip ==
  (headerLen = OldHeaderSize /\ loaded # None) =>
    /\ loaded.err = "nil"
    /\ loaded.total = total
    /\ LenNames(loaded) = Cardinality(DOMAIN idByName)
    /\ Len(loaded.nodes) = Len(nodes)
    /\ \A q \in Queries : Lookup(loaded.nodes, loaded.names, q) = Lookup(nodes, names, q)

\* A minimized index of two prefixes and two labels, saved and loaded, in
\* which some address has a label.
C5_Witness ==
  /\ headerLen = OldHeaderSize /\ loaded # None
  /\ minimized = 1 /\ total = 2 /\ Len(names) = 2 /\ Len(nodes) > 2
  /\ \E q \in Queries : Lookup(loaded.nodes, loaded.names, q) # EmptyString

Terminal(k) == Descend(nodes, 0, log[k][1], 0, log[k][2])

\* No later insertion of the log ended at the node of insertion k.
LastOnPath(k) == \A j \in Inserted : SamePath(j, k) => j <= k

\* C11: the terminal node of an insertion of mask length L stores maskLen = L
\* with no wrap-around of the signed 8-bit field: every stamped node has
\* 0 <= maskLen <= 128, equal to its depth from the root, and the address of
\* an inserted /128 prefix looks up to the label of that prefix.
C11_StoredMaskLength ==
  (minimized = 0 /\ ret # "panic") =>
    /\ \A n \in 1..Len(nodes) :
          nodes[n].id # -1 => (0 <= nodes[n].maskLen /\ nodes[n].maskLen <= IPv6Bits)
    /\ \A k \in Inserted : nodes[Terminal(k) + 1].maskLen = log[k][2]
    /\ \A k \in Inserted :
          (log[k][2] = IPv6Bits /\ LastOnPath(k)) =>
            LookupIP(nodes, names, log[k][1]) = log[k][3]

\* The nodes that some node of S has as a child.
ChildrenOf(ns, S) == {ns[n + 1].children[b] : n \in S, b \in 1..2} \ {-1}

\* The nodes at the end of a path of k child fields that starts in S.
RECURSIVE PathEnds(_, _, _)
PathEnds(ns, S, k) == IF k = 0 \/ S = {} THEN S ELSE PathEnds(ns, ChildrenOf(ns, S), k - 1)

\* No node is reachable from itself: no path has as many edges as there are nodes.
Acyclic(ns) ==
  /\ \A n \in 1..Len(ns) : \A b \in 1..2 : ns[n].children[b] \in -1..(Len(ns) - 1)
  /\ PathEnds(ns, 0..(Len(ns) - 1), Len(ns)) = {}

\* C19: after Minimize the node graph is acyclic and no child field refers to
\* node 0: every child field is -1 or an index in 1..len(nodes)-1.
C19_MinimizedAcyclic ==
  (minimized = 1 /\ ret # "panic") =>
    /\ \A n \in 1..Len(nodes) : \A b \in 1..2 :
          nodes[n].children[b] = -1 \/ nodes[n].children[b] \in 1..(Len(nodes) - 1)
    /\ Acyclic(nodes)

\* The subtrees of nodes i and j of ns are isomorphic: the same shape, the
\* same id and the same maskLen at every position.
RECURSIVE Isomorphic(_, _, _)
Isomorphic(ns, i, j) ==
  /\ ns[i + 1].id = ns[j + 1].id
  /\ ns[i + 1].maskLen = ns[j + 1].maskLen
  /\ \A b \in 1..2 :
        \/ ns[i + 1].children[b] = -1 /\ ns[j + 1].children[b] = -1
        \/ /\ ns[i + 1].children[b] # -1 /\ ns[j + 1].children[b] # -1
           /\ Isomorphic(ns, ns[i + 1].children[b], ns[j + 1].children[b])

\* C20: Minimize maps two nodes of the trie to the same output node exactly
\* when their subtrees are isomorphic, the output node carries the id and the
\* maskLen of the nodes mapped to it, the output array holds no two nodes with
\* equal (child[0], child[1], id, maskLen), and it is never longer than the
\* input array.
C20_CanonicalSharing ==
  [][(minimized = 0 /\ minimized' = 1) =>
       /\ \A i, j \in 0..(Len(nodes) - 1) :
             (MinimizeRemap(nodes)[i + 1] = MinimizeRemap(nodes)[j + 1])
               <=> Isomorphic(nodes, i, j)
       /\ \A i \in 0..(Len(nodes) - 1) :
             /\ MinimizeRemap(nodes)[i + 1] \in 0..(Len(nodes') - 1)
             /\ nodes'[MinimizeRemap(nodes)[i + 1] + 1].id = nodes[i + 1].id
             /\ nodes'[MinimizeRemap(nodes)[i + 1] + 1].maskLen = nodes[i + 1].maskLen
       /\ \A m, n \in 1..Len(nodes') : m # n => nodes'[m] # nodes'[n]
       /\ Len(nodes') <= Len(nodes)]_vars

\* Three disjoint prefixes under one label, minimized: the three leaves share
\* one node, and the array of six nodes is left with four.
C20_Witness ==
  /\ minimized = 1 /\ Inserted = {1, 2, 3}
  /\ Disjoint(1, 2) /\ Disjoint(1, 3) /\ Disjoint(2, 3)
  /\ log[1][2] = 2 /\ log[2][2] = 2 /\ log[3][2] = 2
  /\ Len(names) = 1
  /\ Len(nodes) = 4

\* C17: over a source whose content does not change, every ReadAt of the block
\* cache with offset >= 0 and length >= 1 returns the bytes, the byte count and
\* the end-of-file indication of the same ReadAt on the source, for requests
\* that end after the end of the data and requests that begin at or past it too.
C17_CacheTransparency ==
  read # None =>
    /\ read.n = read.direct.n
    /\ read.b = read.direct.b
    /\ read.err = read.direct.err

\* A request that begins before the end of the data and ends after it,
\* answered from the resident block with no read of the source.
C17_Witness ==
  /\ read # None
  /\ read.reads = <<>>
  /\ read.off < Len(file) /\ Len(file) < read.off + read.len
  /\ read.n > 0 /\ read.n < read.len /\ read.err = "EOF"
  /\ cache.offset > 0

\* The request of len bytes at off lies inside one aligned block of r.
FitsInBlock(r, off, len) == off + len <= expectedCacheEnd(r, off)

\* The aligned block that holds off is the one r holds.
Resident(r, off) == isInitialized(r) /\ r.offset = cacheOffset(r, off)

\* The block r holds ended at the end of the data before it was full.
ShortBlock(r) == isInitialized(r) /\ r.sizeTilEOF < bufSize(r)

\* C18, as the claim has it: for a request inside one aligned block the cache
\* reads the source, one full block at the aligned offset, when the block is
\* not resident or the resident copy is a short, EOF-marked one; a resident,
\* complete block answers with no read of the source.
C18_RefillRule ==
  [][(read' # read /\ FitsInBlock(cache, read'.off, read'.len)) =>
       IF ~Resident(cache, read'.off) \/ ShortBlock(cache)
       THEN read'.reads = << <<cacheOffset(cache, read'.off), bufSize(cache)>> >>
       ELSE read'.reads = <<>>]_vars

\* C18, amended: for a request inside one aligned block the cache reads the
\* source, one full block at the aligned offset, exactly when the block is not
\* the resident one, and the block is resident after the call; a resident block,
\* complete or short, answers with no read of the source and is left as it is.
C18_RefillWhenNotResident ==
  [][(read' # read /\ FitsInBlock(cache, read'.off, read'.len)) =>
       /\ Resident(cache', read'.off)
       /\ IF ~Resident(cache, read'.off)
          THEN read'.reads = << <<cacheOffset(cache, read'.off), bufSize(cache)>> >>
          ELSE read'.reads = <<>> /\ cache' = cache]_vars

\* A request answered from a resident block that is short, with no read of
\* the source.
C18_Witness ==
  /\ read # None
  /\ FitsInBlock(cache, read.off, read.len)
  /\ Resident(cache, read.off) /\ ShortBlock(cache) /\ cache.sizeTilEOF > 0
  /\ read.reads = <<>> /\ read.n = read.len

\* C14: on an in-memory index whose construction has finished, no step of a
\* Lookup or LookupIP call modifies nodes, names, idByName, total or the
\* metadata, and in every interleaving of the calls of the goroutines each call
\* returns the label a sequential Lookup returns.
C14_LookupReadOnly ==
  /\ [][calls' # calls =>
          /\ nodes' = nodes /\ names' = names /\ idByName' = idByName
          /\ total' = total /\ idxMeta' = idxMeta]_vars
  /\ [](\A g \in Goroutines :
          calls[g].pc = "done" => calls[g].label = Lookup(nodes, names, calls[g].q))

\* One goroutine has returned a label while the other is inside the loop of
\* its own lookup, past a stamped node.
C14_Witness ==
  /\ calls[1].pc = "done" /\ calls[1].label # EmptyString
  /\ calls[2].pc = "loop" /\ calls[2].i >= 1 /\ calls[2].s.bestID # -1
  /\ calls[2].q # calls[1].q

\* The goroutines that are between idx.mu.Lock() and the return of lookupIP:
\* reading node records through the reader of the index.
Reading == {g \in Goroutines : calls[g].pc = "loop"}

\* C13: on one file-backed index the Lookup, LookupIP and SafeLookupIP calls of
\* the goroutines are serialized by idx.mu: at no time are two calls reading
\* node records or the block cache, the goroutine that reads holds the mutex,
\* and every call returns the label it returns when it runs alone.
C13_LookupsSerialized ==
  /\ Cardinality(Reading) <= 1
  /\ \A g \in Reading : mu = g
  /\ \A g \in Goroutines :
        calls[g].pc = "done" =>
          /\ calls[g].err = "nil" /\ ~calls[g].panic
          /\ calls[g].label = FileLookup(opened, file, calls[g].q).label

\* One goroutine is inside the loop, past its second node read through the
\* cache, while the other waits at idx.mu.Lock().
C13_Witness ==
  /\ calls[1].pc = "loop" /\ calls[1].i >= 2 /\ mu = 1
  /\ calls[2].pc = "lock"
  /\ opened.r # None /\ isInitialized(opened.r)

\* C15: when the read of a node record fails or comes short during a lookup on
\* the file-backed index, SafeLookupIP returns the empty label with a non-nil
\* error, with no panic and no label found earlier in the walk, and Lookup and
\* LookupIP panic with that error; a lookup whose first node record is past the
\* end of the file meets such a read when no cache stands before the file.
C15_ReadErrorPropagates ==
  found # None =>
    /\ found.err # "nil" =>
         /\ found.label = EmptyString
         /\ found.panic <=> found.kind # "SafeLookupIP"
    /\ found.err = "nil" => ~found.panic
    /\ (found.q.ok /\ ~found.cached /\ found.fileLen < opened.nodesOffset + opened.nodeSize)
         => found.err # "nil"

\* SafeLookupIP has returned an error and no label for an address the index
\* has a label for: the root, stamped, was read and the next node record came
\* short.
C15_Witness ==
  /\ found # None /\ found.kind = "SafeLookupIP"
  /\ found.err # "nil" /\ found.label = EmptyString /\ ~found.panic
  /\ found.fileLen = opened.nodesOffset + opened.nodeSize + 5
  /\ nodes[1].id # -1
  /\ Lookup(nodes, names, found.q) # EmptyString

(* -------------------- metadata through Save and Load ------------------- *)
\* BuildDate values as Unix seconds: unset, and two instants.
BuildDates == {0, 1755020941, 1755107341}

\* The values the caller stores through Metadata().
MetadataValues ==
  [BuildDate : BuildDates,
   Name : {EmptyString, <<65>>, <<66, 66>>},
   Description : {EmptyString, <<65>>}]

\* Metadata() on the in-memory index, then an assignment to its fields.
SetMetadata ==
  \E m \in MetadataValues :
    /\ Building
    /\ idxMeta' = m
    /\ UNCHANGED <<wide, nodes, names, idByName, total, log, minimized, ret,
                   file, headerLen, loaded, opened, found, mu, calls, cache, read>>

\* Open on the bytes Save wrote.
MetaOpen ==
  \E size \in BufferSizes :
    /\ headerLen = OldHeaderSize
    /\ opened = None
    /\ opened' = Open(file, size)
    /\ UNCHANGED <<wide, nodes, names, idByName, total, log, minimized, ret,
                   file, headerLen, loaded, found>>
    /\ UNCHANGED extVars

MetaNext == SetMetadata \/ DoSave \/ DoLoad \/ MetaOpen

MetaSpec == Init /\ [][MetaNext]_vars

\* C16: after Save of an index whose metadata has a build date, a name and a
\* description, the index Load decodes from the written bytes and the index Open
\* returns on them both report that build date, name and description.
C16_MetadataRoundTrip ==
  (/\ headerLen = OldHeaderSize
   /\ idxMeta.BuildDate # 0
   /\ idxMeta.Name # EmptyString
   /\ idxMeta.Description # EmptyString)
  => /\ loaded # None => (loaded.err = "nil" /\ loaded.meta = idxMeta)
     /\ opened # None => (opened.err = "nil" /\ opened.meta = idxMeta)

(* ------------------- an index of many distinct labels ------------------ *)
\* The prefixes inserted are the /16 networks of IPv4, in address order: the
\* k-th is a.b.0.0/16 with 256 * a + b = k - 1. They are pairwise disjoint.
\* The arrays of an index of tens of thousands of prefixes are not kept as
\* values of nodes, names and idByName, which stay as constructed here: total
\* is the number n of prefixes inserted, and the arrays are CapNodes(n),
\* CapNames(n) and CapIdByName(n).
CapMaskLen == 16

CapOctets(k, last) == <<(k - 1) \div 256, (k - 1) % 256, 0, last>>

CapCIDR(k) == V4Text(CapOctets(k, 0), CapMaskLen)

\* The k-th label: the two bytes of k, distinct for distinct k below 65,536.
CapLabel(k) == <<k \div 256, k % 256>>

\* An address in the k-th prefix: a.b.0.1.
CapQuery(k) == IPText(TRUE, CapOctets(k, 1))

\* The numbers of prefixes the loader inserts before the calls one by one.
CapLoads == {32764, 32766}

MaxLabels == 32771

\* The prefixes looked up, by number.
CapQueried == {1, 256, 16384, 32767, 32768, 32769, 32770}

\* The nodes AddNet has appended for the subtree at depth d that begins at
\* prefix number first + 1, once the first n prefixes are inserted in address
\* order: the node itself at index base, then the nodes of its child 0, then
\* those of its child 1 if a prefix below it is inserted. A node at depth
\* CapMaskLen is where the insertion of prefix first + 1 ended and carries its
\* label id and mask length.
RECURSIVE CapSubtree(_, _, _, _)
CapSubtree(n, d, first, base) ==
  IF d = CapMaskLen
  THEN << [children |-> <<-1, -1>>, id |-> ToS(wide, first + 1),
           maskLen |-> ToInt8(CapMaskLen)] >>
  ELSE LET half == Pow2(CapMaskLen - d - 1)
           left == CapSubtree(n, d + 1, first, base + 1)
           rightAt == base + 1 + Len(left)
       IN IF first + half < n
          THEN << [children |-> <<base + 1, rightAt>>, id |-> -1, maskLen |-> -1] >>
                 \o left \o CapSubtree(n, d + 1, first + half, rightAt)
          ELSE << [children |-> <<base + 1, -1>>, id |-> -1, maskLen |-> -1] >> \o left

\* idx.nodes, idx.names and idx.idByName after the first n insertions.
CapNodes(n) == CapSubtree(n, 0, 0, 0)

CapNames(n) == [i \in 1..n |-> CapLabel(i)]

CapIdByName(n) == [nm \in {CapLabel(i) : i \in 1..n} |-> ToS(wide, 256 * nm[1] + nm[2])]

\* A loader's loop on a new index: AddCIDR of the first n prefixes in address
\* order, the k-th with the k-th label.
CapLoad ==
  \E n \in CapLoads :
    /\ CanCall
    /\ total = 0
    /\ found = None
    /\ total' = n
    /\ ret' = "nil"
    /\ UNCHANGED <<wide, nodes, names, idByName, log, minimized>>
    /\ UNCHANGED codecVars
    /\ UNCHANGED extVars

\* The arrays AddNet leaves on the node array ns, label table nm and reverse
\* map byName.
AddNetOn(ns, in, w, maskLen) ==
  [panic |-> w.panic,
   nodes |-> IF w.panic THEN w.nodes
             ELSE [w.nodes EXCEPT ![w.current + 1].id = in.id,
                                  ![w.current + 1].maskLen = ToInt8(maskLen)],
   names |-> in.names,
   idByName |-> in.idByName]

\* The index after AddCIDR of prefix n + 1 on the index of n prefixes.
CapAddNet(n, ipNet) ==
  AddNetOn(CapNodes(n),
           InternIn(CapNames(n), CapIdByName(n), CapLabel(n + 1)),
           AddNetWalk(CapNodes(n), Canonical(ipNet.IP), MaskSize(ipNet.Mask)),
           MaskSize(ipNet.Mask))

\* The step to the index s that AddNet leaves: s is the index of total + 1
\* prefixes.
CapAdded(s) ==
  /\ ~s.panic
  /\ s.nodes = CapNodes(total + 1)
  /\ s.names = CapNames(total + 1)
  /\ s.idByName = CapIdByName(total + 1)
  /\ total' = total + 1
  /\ ret' = "nil"
  /\ UNCHANGED <<wide, nodes, names, idByName, log, minimized>>
  /\ UNCHANGED codecVars
  /\ UNCHANGED extVars

\* AddCIDR of the next prefix with the next label, after the loader and before
\* the first lookup.
CapAdd ==
  /\ CanCall
  /\ total > 0
  /\ total < MaxLabels
  /\ found = None
  /\ ~ParseCIDR(CapCIDR(total + 1)).err
  /\ CapAdded(CapAddNet(total, ParseCIDR(CapCIDR(total + 1)).ipNet))

\* The outcome of Lookup of an address in prefix k.
CapLookedUp(k, panics, ns, nm) ==
  /\ found' = [k |-> k, panic |-> panics,
               label |-> IF panics THEN EmptyString ELSE Lookup(ns, nm, CapQuery(k))]
  /\ UNCHANGED <<wide, nodes, names, idByName, total, log, minimized, ret,
                 file, headerLen, loaded, opened>>
  /\ UNCHANGED extVars

CapLookupOn(k, ns, nm) ==
  CapLookedUp(k, LookupIPPanics(ns, nm, ParseIP(CapQuery(k))), ns, nm)

CapLookup ==
  \E k \in CapQueried :
    /\ CanCall
    /\ total > 0
    /\ found = None
    /\ CapLookupOn(k, CapNodes(total), CapNames(total))

CapacityNext == CapLoad \/ CapAdd \/ CapLookup

CapacitySpec == Init /\ [][CapacityNext]_vars

\* Every id stored in a node of ns is in 1..n; -1 is a node with no id.
IdsWithin(ns, n) == \A i \in 1..Len(ns) : ns[i].id # -1 => ns[i].id \in 1..n

\* C12: in a narrow index, after N <= 65,535 disjoint prefixes are inserted with
\* N distinct labels, every id stored in a node is in 1..N, the label table has
\* N entries, and Lookup of an address in the k-th prefix returns the k-th label
\* without a panic.
C12_NarrowCapacity ==
  (~wide /\ total > 0 /\ total <= 65535)
  => /\ IdsWithin(CapNodes(total), total)
     /\ Len(CapNames(total)) = total
     /\ (found # None /\ found.k <= total)
          => (~found.panic /\ found.label = CapLabel(found.k))

(* ------------------- reference: the node a lookup takes ---------------- *)
\* The walk of a lookup over the octets ip from node cur at bit i: the node
\* whose id the lookup returns, -1 when it takes none. best is the node taken
\* so far and bestLen its mask length.
RECURSIVE TakenFrom(_, _, _, _, _, _, _)
TakenFrom(ns, ip, cur, i, maxBits, best, bestLen) ==
  LET n == ns[cur + 1]
      takes == n.id # -1 /\ n.maskLen > bestLen
      b == IF takes THEN cur ELSE best
      bl == IF takes THEN n.maskLen ELSE bestLen
  IN IF i >= maxBits THEN b
     ELSE IF n.children[Bit(ip, i) + 1] = -1 THEN b
     ELSE TakenFrom(ns, ip, n.children[Bit(ip, i) + 1], i + 1, maxBits, b, bl)

\* The node that is the longest match of the address octets ip in ns.
Taken(ns, ip) ==
  TakenFrom(ns, ip, 0, 0, IF Len(ip) = IPv4len THEN IPv4Bits ELSE IPv6Bits, -1, -1)

\* The call a step appends to the log, and the node its prefix ends at in the
\* node array before the step: -1 when the path is not there yet.
LastCall == log'[Len(log')]
TerminalBefore == Descend(nodes, 0, LastCall[1], 0, LastCall[2])

\* The step is an insertion of a prefix whose node is already stamped.
Overwrites ==
  /\ minimized = 0
  /\ Len(log') = Len(log) + 1
  /\ LastCall[4]
  /\ TerminalBefore # -1
  /\ nodes[TerminalBefore + 1].id # -1

MaxStrictAdds == 3

StrictCIDRs ==
  { V4Text(<<0, 0, 0, 0>>, 0),                              \* 0.0.0.0/0
    V4Text(<<192, 168, 0, 0>>, 16),                         \* 192.168.0.0/16
    V4Text(<<192, 168, 1, 0>>, 24),                         \* 192.168.1.0/24
    V4Text(<<192, 168, 1, 128>>, 25),                       \* 192.168.1.128/25
    V4Text(<<10, 1, 2, 3>>, 32),                            \* 10.1.2.3/32
    V6Text(Addr2001db8(0), 32),                             \* 2001:db8::/32
    Text(FALSE, FALSE, FALSE, <<>>, FALSE, 0) }             \* not-a-cidr

StrictIds == {1, 2}

\* What a call of the strict AddCIDR leaves besides nodes, total, ret, log and
\* found.
StrictFrame ==
  /\ UNCHANGED <<wide, names, idByName, minimized, file, headerLen, loaded, opened>>
  /\ UNCHANGED extVars

\* The return of the strict AddCIDR with an error: kind is the error, and the
\* operands are the values its message is formatted from, the text cidr alone.
StrictError(kind, cidr) ==
  /\ ret' = kind
  /\ found' = [operands |-> <<[is |-> "cidr", value |-> cidr]>>]

\* The strict AddCIDR that stamps the node before it reports the overlap.
StrictAddCIDR_StampsAnyway(cidr, id) ==
  LET p == ParseCIDR(cidr)
  IN /\ StrictFrame
     /\ IF p.err
        THEN StrictError("invalid CIDR", cidr) /\ UNCHANGED <<nodes, total, log>>
        ELSE IF To4(p.ipNet.IP) = <<>>
        THEN StrictError("only IPv4 supported", cidr) /\ UNCHANGED <<nodes, total, log>>
        ELSE LET ip == To4(p.ipNet.IP)
                 maskLen == MaskSize(p.ipNet.Mask)
                 w == AddNetWalk(nodes, ip, maskLen)
             IN IF w.panic
                THEN /\ nodes' = w.nodes /\ ret' = "panic" /\ UNCHANGED <<total, found>>
                     /\ log' = Append(log, <<ip, maskLen, id, FALSE>>)
                ELSE IF w.nodes[w.current + 1].id # -1
                THEN /\ StrictError("overlap", cidr)
                     /\ nodes' = [w.nodes EXCEPT ![w.current + 1].id = id]
                     /\ log' = Append(log, <<ip, maskLen, id, FALSE>>)
                     /\ UNCHANGED total
                ELSE /\ nodes' = [w.nodes EXCEPT ![w.current + 1].id = id,
                                                 ![w.current + 1].maskLen = ToInt8(maskLen)]
                     /\ total' = total + 1
                     /\ ret' = "nil"
                     /\ log' = Append(log, <<ip, maskLen, id, TRUE>>)
                     /\ UNCHANGED found

\* The strict AddCIDR(cidr, id): the walk appends the nodes that are missing,
\* then a stamped node at its end is an error that wraps ErrOverlap.
StrictAddCIDR(cidr, id) ==
  LET p == ParseCIDR(cidr)
  IN /\ StrictFrame
     /\ IF p.err
        THEN StrictError("invalid CIDR", cidr) /\ UNCHANGED <<nodes, total, log>>
        ELSE IF To4(p.ipNet.IP) = <<>>
        THEN StrictError("only IPv4 supported", cidr) /\ UNCHANGED <<nodes, total, log>>
        ELSE LET ip == To4(p.ipNet.IP)
                 maskLen == MaskSize(p.ipNet.Mask)
                 w == AddNetWalk(nodes, ip, maskLen)
             IN IF w.panic
                THEN /\ nodes' = w.nodes /\ ret' = "panic" /\ UNCHANGED <<total, found>>
                     /\ log' = Append(log, <<ip, maskLen, id, FALSE>>)
                ELSE IF w.nodes[w.current + 1].id # -1
                THEN /\ StrictError("overlap", cidr)
                     /\ nodes' = w.nodes
                     /\ log' = Append(log, <<ip, maskLen, id, FALSE>>)
                     /\ UNCHANGED total
                ELSE /\ nodes' = [w.nodes EXCEPT ![w.current + 1].id = id,
                                                 ![w.current + 1].maskLen = ToInt8(maskLen)]
                     /\ total' = total + 1
                     /\ ret' = "nil"
                     /\ log' = Append(log, <<ip, maskLen, id, TRUE>>)
                     /\ UNCHANGED found

StrictAdd ==
  \E c \in StrictCIDRs, id \in StrictIds :
    /\ CanCall
    /\ Len(log) < MaxStrictAdds
    /\ StrictAddCIDR(c, id)

StrictNext == StrictAdd

StrictSpec == Init /\ [][StrictNext]_vars

\* C22: the strict AddCIDR of a prefix whose terminal node is already stamped
\* returns an error wrapping ErrOverlap and leaves every node, the number of
\* nodes and Len() as they were before the call.
C22_StrictOverlapLeavesIndex ==
  [][(/\ Len(log') = Len(log) + 1
      /\ TerminalBefore # -1
      /\ nodes[TerminalBefore + 1].id # -1) =>
       /\ ret' = "overlap"
       /\ nodes' = nodes
       /\ total' = total]_vars

\* An overlap reported on an index of two prefixes and more than two nodes.
C22_Witness ==
  /\ ret = "overlap"
  /\ total = 2
  /\ Len(nodes) > 2
  /\ Len(log) = 3 /\ ~log[3][4]

\* The prefix of the call a step appends lies within prefix k of the log: the
\* same prefix or a longer one with the same leading bits.
Within(k) ==
  /\ log[k][2] <= LastCall[2]
  /\ \A i \in 0..(log[k][2] - 1) : Bit(log[k][1], i) = Bit(LastCall[1], i)

\* C23: the strict AddCIDR of a prefix that is identical to an inserted prefix
\* or contained in one returns an error wrapping ErrOverlap, and the error
\* names the incoming label and the existing label.
C23_StrictNestedOverlap ==
  [][(Len(log') = Len(log) + 1 /\ \E k \in Inserted : Within(k)) =>
       /\ ret' = "overlap"
       /\ \E i \in DOMAIN found'.operands :
            found'.operands[i].is = "label" /\ found'.operands[i].value = LastCall[3]
       /\ \E k \in Inserted :
            /\ Within(k)
            /\ \E i \in DOMAIN found'.operands :
                 found'.operands[i].is = "label" /\ found'.operands[i].value = log[k][3]]_vars

(* --------------------- insertion into a loaded index ------------------- *)
\* The prefix inserted into the loaded index, and an address in it.
ReloadCIDR == V4Text(<<10, 0, 0, 0>>, 8)                    \* 10.0.0.0/8
ReloadQuery == IPText(TRUE, <<10, 1, 2, 3>>)                \* 10.1.2.3

\* The loaded index after AddNet has left the arrays s.
LoadedAdded(s) ==
  /\ ~s.panic
  /\ loaded' = [loaded EXCEPT !.nodes = s.nodes, !.names = s.names,
                              !.idByName = s.idByName, !.total = loaded.total + 1]
  /\ UNCHANGED <<wide, nodes, names, idByName, total, log, minimized, ret,
                 file, headerLen, opened, found>>
  /\ UNCHANGED extVars

\* AddNet(ipNet, name) on the loaded index.
LoadedAddNet(ipNet, name) ==
  LoadedAdded(AddNetOn(loaded.nodes,
                       InternIn(loaded.names, loaded.idByName, name),
                       AddNetWalk(loaded.nodes, Canonical(ipNet.IP), MaskSize(ipNet.Mask)),
                       MaskSize(ipNet.Mask)))

\* AddCIDR on the index Load has filled, once.
LoadedAdd ==
  \E name \in Labels :
    /\ loaded # None
    /\ loaded.err = "nil"
    /\ loaded.total = total
    /\ LoadedAddNet(ParseCIDR(ReloadCIDR).ipNet, name)

ReloadNext == CodecAdd \/ DoSave \/ DoLoad \/ LoadedAdd

ReloadSpec == Init /\ [][ReloadNext]_vars

\* The labels of the label table nm.
LabelsIn(nm) == {nm[i] : i \in 1..Len(nm)}

\* C24: after Load the reverse map gives position i, counted from 1, for
\* the label at position i; AddNet on the loaded index with a label the index
\* holds adds no label, and Lookup of an address in the new prefix returns
\* that label.
C24_LoadRebuildsReverseMap ==
  /\ []((loaded # None /\ loaded.err = "nil" /\ loaded.total = total) =>
          \A i \in 1..Len(loaded.names) :
            MapGet(loaded.idByName, loaded.names[i]) = i)
  /\ [][\A name \in Labels :
          (/\ loaded # None
           /\ loaded.err = "nil"
           /\ loaded.total = total
           /\ name \in LabelsIn(loaded.names)
           /\ LoadedAddNet(ParseCIDR(ReloadCIDR).ipNet, name)) =>
            /\ loaded'.names = loaded.names
            /\ MapGet(loaded'.idByName, name) = MapGet(loaded.idByName, name)
            /\ Lookup(loaded'.nodes, loaded'.names, ReloadQuery) = name]_vars

\* The version_and_flags word: version 1, bit 31 set for wide ids.
VersionWord == << IF wide THEN 128 ELSE 0, 0, 0, 1 >>

\* C25: the file Save writes begins with the 20-byte header (version_and_flags,
\* total, nodes_len, labels_len, metadata_len), the node records follow the
\* metadata from byte 20 + metadata_len on, 11 or 13 bytes each, and both Load
\* and Open accept the file.
C25_OneFileLayout ==
  (headerLen = OldHeaderSize) =>
    /\ Len(file) >= HeaderSize
    /\ SubSeq(file, 1, 4) = VersionWord
    /\ SubSeq(file, 5, 8) = PutUint32(total)
    /\ SubSeq(file, 9, 12) = PutUint32(Len(nodes))
    /\ SubSeq(file, 13, 16) = PutUint32(Len(names))
    /\ SubSeq(file, 17, 20) = PutUint32(0)
    /\ SubSeq(file, HeaderSize + 1, HeaderSize + Len(nodes) * NodeSize(wide))
         = NodeRecords(wide, nodes)
    /\ loaded # None => loaded.err = "nil"
    /\ opened # None => opened.err = "nil"

\* The IPv4 addresses among the addresses looked up, as 4 octets.
V4Addrs == {q.addr : q \in {t \in Queries : t.ok /\ Len(t.addr) = IPv4len}}

\* The text "::ffff:a.b.c.d" of the IPv4 address a.
MappedText(a) == IPText(TRUE, v4InV6Prefix \o a)

\* C26: on every index, Lookup of "::ffff:a.b.c.d" returns the label Lookup of
\* "a.b.c.d" returns, and LookupIP returns the same label for the 4-octet and
\* the 16-octet form of an IPv4 address.
C26_MappedAddressIsIPv4 ==
  \A a \in V4Addrs :
    /\ Lookup(nodes, names, MappedText(a)) = Lookup(nodes, names, IPText(TRUE, a))
    /\ LookupIP(nodes, names, As16(a)) = LookupIP(nodes, names, a)

\* An index in which the 16-octet form of an IPv4 address gets a label.
C26_Witness ==
  /\ minimized = 0
  /\ \E a \in V4Addrs :
       /\ LookupIP(nodes, names, As16(a)) # EmptyString
       /\ Lookup(nodes, names, MappedText(a)) = LookupIP(nodes, names, a)

\* One insertion of the log, made by AddNet on the index s.
ReplayStep(s, e) ==
  LET w == AddNetWalk(s.nodes, e[1], e[2])
      r == AddNetOn(s.nodes, InternIn(s.names, s.idByName, e[3]), w, e[2])
  IN [nodes |-> r.nodes, names |-> r.names, idByName |-> r.idByName,
      total |-> s.total + 1]

\* The index after the insertions seq[1..k] on a new index.
RECURSIVE Replay(_, _)
Replay(seq, k) ==
  IF k = 0
  THEN [nodes |-> NewIndex.nodes, names |-> NewIndex.names,
        idByName |-> NewIndex.idByName, total |-> NewIndex.total]
  ELSE ReplayStep(Replay(seq, k - 1), seq[k])

\* The orderings of n insertions.
Orderings(n) == {p \in [1..n -> 1..n] : \A i, j \in 1..n : p[i] = p[j] => i = j}

\* The insertions of the log in the ordering p.
Reordered(p) == [i \in 1..Len(log) |-> log[p[i]]]

\* No two insertions of the log have the same prefix (address octets and
\* mask length).
DistinctPrefixes ==
  \A i, j \in 1..Len(log) :
    (log[i][1] = log[j][1] /\ log[i][2] = log[j][2]) => i = j

\* The index r answers as the index of the state does: the same label for
\* every address, the same Len() and the same LenNames().
SameAnswers(r) ==
  /\ \A q \in Queries : Lookup(r.nodes, r.names, q) = Lookup(nodes, names, q)
  /\ r.total = total
  /\ Cardinality(DOMAIN r.idByName) = Cardinality(DOMAIN idByName)

\* C27: for insertions with pairwise distinct prefixes, every ordering of the
\* same insertions gives an index with the same Lookup(a) for every address a,
\* the same Len() and the same LenNames().
C27_InsertionOrder ==
  (minimized = 0 /\ ret # "panic" /\ DistinctPrefixes) =>
    \A p \in Orderings(Len(log)) : SameAnswers(Replay(Reordered(p), Len(log)))

(* ------------------ the block cache over a source that fails ---------- *)
\* An error of the source's ReadAt that is not io.EOF.
SourceError == "input/output error"

\* readerAt.ReadAt(b, off) that fails after k bytes of data.
FailingReadAt(data, b, off, k) ==
  [n |-> k, err |-> SourceError,
   b |-> [i \in 1..Len(b) |-> IF i <= k THEN data[off + i] ELSE b[i]]]

\* What readerAt.ReadAt(b, off) can return on a source that holds data: the
\* bytes as a file gives them, or an error with no byte or with one byte.
SourceOutcomes(data, b, off) ==
  {FileReadAt(data, b, off)} \cup
  {FailingReadAt(data, b, off, k) :
     k \in {j \in {0, 1} : j <= FileReadAt(data, b, off).n /\ j < Len(b)}}

\* The request crosses a block boundary: ReadAt passes it to the source.
crossesBlock(r, b, offset) ==
  \/ offset < cacheOffset(r, offset) /\ cacheOffset(r, offset) < offset + Len(b)
  \/ offset < expectedCacheEnd(r, offset) /\ expectedCacheEnd(r, offset) < offset + Len(b)

\* The outcome of cache.ReadAt(b, off), the reads it issued to the source and
\* the source error behind its answer: that of the direct read, else the one
\* the cache holds for the block.
SourceReadOutcome(off, b, res, direct, reads) ==
  [off |-> off, len |-> Len(b), n |-> res.n, err |-> res.err, b |-> res.b,
   reads |-> reads,
   behind |-> IF crossesBlock(cache, b, off) THEN direct.err ELSE res.r.lastErr]

\* cache.ReadAt(make([]byte, len), off) over the failing source.
SourceReadAt ==
  \E off \in 0..MaxReadOffset, len \in 1..MaxReadLen :
    \E direct \in SourceOutcomes(file, Zeros(len), off),
       block \in SourceOutcomes(file, cache.buf.bytes, cacheOffset(cache, off)) :
      /\ cache # None
      /\ cache' = bufReadAtOn(cache, direct, readAtAndRenewCacheOn(cache, block, off),
                              Zeros(len), off).r
      /\ read' = SourceReadOutcome(off, Zeros(len),
                                   bufReadAtOn(cache, direct,
                                               readAtAndRenewCacheOn(cache, block, off),
                                               Zeros(len), off),
                                   direct, ReadAtReads(cache, Zeros(len), off))
      /\ UNCHANGED <<wide, nodes, names, idByName, total, log, minimized, ret,
                     file, headerLen, loaded, opened, found, idxMeta, mu, calls>>

SourceNext == SourceReadAt

\* A bufReaderAt of 3 or 4 bytes over a source of 5 bytes; no index.
SourceInit ==
  /\ wide = FALSE
  /\ nodes = <<EmptyNode>>
  /\ names = <<>>
  /\ idByName = <<>>
  /\ total = 0
  /\ log = <<>>
  /\ minimized = 0
  /\ ret = "nil"
  /\ file = SourceBytes(5)
  /\ headerLen = 0
  /\ loaded = None
  /\ opened = None
  /\ found = None
  /\ idxMeta = ZeroMetadata
  /\ mu = 0
  /\ calls = [g \in Goroutines |-> Idle]
  /\ cache \in {newBufReaderAt(size) : size \in {3, 4}}
  /\ read = None

SourceSpec == SourceInit /\ [][SourceNext]_vars

\* The cache holds a failed read of the block the next request lies in.
HoldsFailedBlock ==
  /\ isInitialized(cache)
  /\ cache.lastErr = SourceError
  /\ cache.offset <= read'.off
  /\ read'.off + read'.len <= cacheEnd(cache)

\* C28: a failed block read is not kept as cache content: a ReadAt in a block
\* whose last read from the source failed reads the source again, and the
\* cache reports io.EOF only when the source's error was io.EOF.
C28_FailedBlockReadNotKept ==
  [][ /\ HoldsFailedBlock => read'.reads # <<>>
      /\ read'.err = "EOF" => read'.behind # SourceError ]_vars

(* ------ concurrent lookups on a file that has lost its end ------------ *)
\* The goroutines of ConcSpec look up in a file that can be truncated under
\* the open index. A goroutine that has started a call goes on running, and
\* sync.Mutex hands the mutex to a goroutine that waits at Lock (its
\* starvation mode), so a waiting goroutine is not passed over for ever.
\* The index holds one prefix.
LiveAdd == Building /\ Len(log) < 1 /\ AddCIDR(V4Text(<<192, 168, 0, 0>>, 16), <<65>>)

\* The calls that return an error or panic with it, for an address under the
\* prefix and one outside it.
LiveCall(g) ==
  \E kind \in {"LookupIP", "SafeLookupIP"},
     q \in {IPText(TRUE, <<192, 168, 1, 100>>), IPText(TRUE, <<10, 1, 2, 3>>)} :
    ConcCallOf(g, kind, q)

LiveNext ==
  \/ LiveAdd \/ ConcSave \/ ConcOpen \/ Truncate
  \/ \E g \in Goroutines : LiveCall(g)
  \/ \E g \in Goroutines : ConcLock(g)
  \/ \E g \in Goroutines : ConcStep(g)
  \/ \E g \in Goroutines : ConcReturn(g)

\* The walk of goroutine g has ended and lookupIP is about to return.
AtReturn(g) == calls[g].pc = "loop" /\ ~InLoop(g)

\* ConcStep(g) is enabled exactly when InLoop(g) holds and ConcReturn(g) exactly
\* when AtReturn(g) holds, and both change calls: their weak fairness,
\* WF_vars(ConcStep(g)) and WF_vars(ConcReturn(g)), is written with these
\* enabling conditions.
LiveSpec ==
  /\ Init
  /\ [][LiveNext]_vars
  /\ \A g \in Goroutines : SF_vars(ConcLock(g))
  /\ \A g \in Goroutines : []<>(~InLoop(g)) \/ []<><<ConcStep(g)>>_vars
  /\ \A g \in Goroutines : []<>(~AtReturn(g)) \/ []<><<ConcReturn(g)>>_vars

\* Goroutine g is inside a call of lookupIP: at Lock or in the walk.
Started(g) == calls[g].pc \in {"lock", "loop"}

\* Goroutine g has returned from its call: with a label, with an error
\* (SafeLookupIP) or with a panic (Lookup, LookupIP).
Returned(g) == calls[g].pc = "done"

\* C29: every exit path of a file-backed lookup releases the index mutex: a
\* goroutine holds the mutex only while it walks, whatever its call returned,
\* and under fair scheduling every started lookup returns.
C29_LookupReleasesMutex ==
  /\ [](\A g \in Goroutines : mu = g => calls[g].pc = "loop")
  /\ \A g \in Goroutines : Started(g) ~> Returned(g)

\* A goroutine walks with the mutex after the call of the other has failed:
\* with an error returned by SafeLookupIP, or with a panic.
C29_Witness ==
  \E g, h \in Goroutines :
    /\ Returned(g) /\ calls[g].err # "nil"
    /\ calls[h].pc = "loop" /\ mu = h

\* The child fields of the node array ns that hold the index j, each as
\* <<node, bit>>.
ParentsOf(ns, j) ==
  {e \in (0..(Len(ns) - 1)) \X {0, 1} : ns[e[1] + 1].children[e[2] + 1] = j}

\* The shape the reverse-order pass of Minimize relies on: a child field is -1
\* or an index after its node and inside the array, every node but the root is
\* the child of exactly one node, and a node without children is stamped.
TrieShape(ns) ==
  /\ \A i \in 0..(Len(ns) - 1) : \A b \in {0, 1} :
       \/ ns[i + 1].children[b + 1] = -1
       \/ i < ns[i + 1].children[b + 1] /\ ns[i + 1].children[b + 1] < Len(ns)
  /\ \A j \in 1..(Len(ns) - 1) : Cardinality(ParentsOf(ns, j)) = 1
  /\ \A i \in 0..(Len(ns) - 1) : ns[i + 1].children = <<-1, -1>> => ns[i + 1].id # -1

====
